---- MODULE Spec2Model ----
(***************************************************************************)
(* Hook execution subsystem of mech-cli (packages/core/src/hooks):         *)
(* HookManager.executeHooks dispatches the hook commands registered for a  *)
(* lifecycle event, HookManager.executeHook runs one command as a child    *)
(* process (spawn, timeout timer, stdin write, stdout/stderr collection,   *)
(* close / error handlers), and shouldBlockOperation / getBlockingMessage  *)
(* aggregate the outcomes.                                                 *)
(*                                                                         *)
(* The child process, the operating system and the Node.js event loop are  *)
(* the environment: their choices are the \E of the actions.               *)
(***************************************************************************)
EXTENDS Integers, Sequences, FiniteSets, TLC

(***************************************************************************)
(* Bounds of the exploration.                                              *)
(***************************************************************************)
\* total number of 'data' events (stdout and stderr chunks) the children
\* deliver in one behaviour of the hook runner's specification ...
MaxData == 2
\* ... and of the dispatcher's specification
MaxDispatchData == 1
\* longest list of outcomes handed to the verdict functions
MaxResults == 2
\* 'data' events in a behaviour of two calls in a row
MaxReplayData == 2

(***************************************************************************)
(* Program constants (types.ts).                                           *)
(***************************************************************************)
DEFAULT_HOOK_TIMEOUT == 60000
BLOCKING_EXIT_CODE == 2

\* the lifecycle events the model dispatches (two of the nine of HookType)
HookType == {"PreToolUse", "PostToolUse"}

(***************************************************************************)
(* JavaScript values that reach HookResult.shouldBlock and                 *)
(* HookResponse.block: every value is a record [t, v] so that booleans and *)
(* non-booleans stay distinguishable.                                      *)
(***************************************************************************)
JSTrue == [t |-> "boolean", v |-> "true"]
JSFalse == [t |-> "boolean", v |-> "false"]
JSBool(b) == IF b THEN JSTrue ELSE JSFalse

\* the exit code argument of the 'close' event is null when the child was
\* ended by a signal
ExitNull == 999
ExitCodes == {0, 1, 2}

(***************************************************************************)
(* Text.  A string is a sequence of tokens; a 'data' chunk is a string.    *)
(*   "{" "}" ","            JSON punctuation                               *)
(*   "block:true" ...       one JSON member; "block:'false'" has the       *)
(*                          string "false" as its value                    *)
(*   "null"                 the JSON literal null                          *)
(*   " "                    whitespace                                     *)
(*   "x"                    text that is not JSON                          *)
(*   "0xC3" "0xA9"          the two bytes of one character in UTF-8        *)
(*   "e-acute"              that character, decoded                        *)
(*   "U+FFFD"               the replacement character                      *)
(***************************************************************************)
Members ==
    {"block:true", "block:false", "message:X",
     "block:null", "block:'false'", "block:1"}

StdoutChunks ==
    { <<"{">>,
      <<"block:true", "}">>,
      <<"block:false", "}">>,
      <<"message:X", "}">>,
      <<"{", "block:true", ",", "message:X", "}">>,
      <<"null">>,
      <<" ">>,
      <<"x">>,
      <<"0xC3">>,
      <<"0xA9">>,
      <<"0xC3", "0xA9">> }

StderrChunks == { <<"e">> }

\* Buffer.prototype.toString: the bytes of one chunk decoded as UTF-8; a
\* byte of a character whose other byte is not next to it in the same chunk
\* becomes the replacement character
RECURSIVE toString(_)
toString(data) ==
    IF data = <<>> THEN <<>>
    ELSE IF Head(data) = "0xC3" /\ Len(data) >= 2 /\ data[2] = "0xA9"
    THEN <<"e-acute">> \o toString(SubSeq(data, 3, Len(data)))
    ELSE IF Head(data) \in {"0xC3", "0xA9"}
    THEN <<"U+FFFD">> \o toString(Tail(data))
    ELSE <<Head(data)>> \o toString(Tail(data))

\* String.prototype.trim: leading and trailing whitespace removed
RECURSIVE TrimLeft(_)
TrimLeft(s) ==
    IF s # <<>> /\ Head(s) = " " THEN TrimLeft(Tail(s)) ELSE s

RECURSIVE TrimRight(_)
TrimRight(s) ==
    IF s # <<>> /\ s[Len(s)] = " " THEN TrimRight(SubSeq(s, 1, Len(s) - 1)) ELSE s

trim(s) == TrimRight(TrimLeft(s))

(***************************************************************************)
(* HookResponse as parsed from stdout.                                     *)
(*   kind    "undefined" (nothing parsed), "null" (JSON null), "object"    *)
(*   hasBlock / block        the `block` member and its value              *)
(*   hasMessage / message    the `message` member                          *)
(***************************************************************************)
NoResponse ==
    [kind |-> "undefined", hasBlock |-> FALSE, block |-> JSFalse,
     hasMessage |-> FALSE, message |-> <<>>]

NullResponse == [NoResponse EXCEPT !.kind = "null"]

EmptyObject == [NoResponse EXCEPT !.kind = "object"]

\* one member assigned to the object under construction (a repeated key
\* keeps the last value, as JSON.parse does)
SetMember(obj, m) ==
    CASE m = "block:true"  -> [obj EXCEPT !.hasBlock = TRUE, !.block = JSTrue]
      [] m = "block:false" -> [obj EXCEPT !.hasBlock = TRUE, !.block = JSFalse]
      [] m = "message:X"   -> [obj EXCEPT !.hasMessage = TRUE, !.message = <<"X">>]
      [] m = "block:null"  ->
            [obj EXCEPT !.hasBlock = TRUE, !.block = [t |-> "null", v |-> "null"]]
      [] m = "block:'false'" ->
            [obj EXCEPT !.hasBlock = TRUE, !.block = [t |-> "string", v |-> "false"]]
      [] m = "block:1"     ->
            [obj EXCEPT !.hasBlock = TRUE, !.block = [t |-> "number", v |-> "1"]]

\* the members of an object body `m , m , m`: ok is FALSE on a syntax error
RECURSIVE ParseMembers(_, _)
ParseMembers(body, obj) ==
    IF body = <<>> THEN [ok |-> FALSE, value |-> obj]
    ELSE IF Head(body) \notin Members THEN [ok |-> FALSE, value |-> obj]
    ELSE IF Len(body) = 1 THEN [ok |-> TRUE, value |-> SetMember(obj, Head(body))]
    ELSE IF body[2] # "," THEN [ok |-> FALSE, value |-> obj]
    ELSE ParseMembers(SubSeq(body, 3, Len(body)), SetMember(obj, Head(body)))

\* JSON.parse(text): ok is FALSE where JSON.parse throws a SyntaxError.
\* Whitespace between tokens is insignificant.
JSONparse(text) ==
    LET s == SelectSeq(text, LAMBDA c : c # " ")
    IN  IF s = <<"null">> THEN [ok |-> TRUE, value |-> NullResponse]
        ELSE IF Len(s) >= 2 /\ Head(s) = "{" /\ s[Len(s)] = "}"
        THEN IF Len(s) = 2 THEN [ok |-> TRUE, value |-> EmptyObject]
             ELSE ParseMembers(SubSeq(s, 2, Len(s) - 1), EmptyObject)
        ELSE [ok |-> FALSE, value |-> NoResponse]

(***************************************************************************)
(* HookResult.                                                             *)
(***************************************************************************)
HookResult(exitCode, out, err, shouldBlock, response) ==
    [exitCode |-> exitCode, stdout |-> out, stderr |-> err,
     shouldBlock |-> shouldBlock, response |-> response]

\* the value of a promise that has not been fulfilled
NoResult == HookResult(-1, <<>>, <<>>, JSFalse, NoResponse)


(***************************************************************************)
(* Hook registry (HooksConfig) and matcher.                                *)
(* A tool name and a pattern are sequences of characters.                  *)
(***************************************************************************)
Star == <<"*">>
Bash == <<"B", "a", "s", "h">>
Read == <<"R", "e", "a", "d">>
BadPattern == <<"(">>

\* new RegExp(pattern) throws a SyntaxError on an unbalanced group
RECURSIVE Depth(_, _)
Depth(pattern, d) ==
    IF pattern = <<>> THEN d
    ELSE IF d < 0 THEN d
    ELSE Depth(Tail(pattern),
               CASE Head(pattern) = "(" -> d + 1
                 [] Head(pattern) = ")" -> d - 1
                 [] OTHER -> d)

RegExpCompiles(pattern) == Depth(pattern, 0) = 0

\* the alternatives of a pattern: its parts between the "|"
RECURSIVE Alternatives(_)
Alternatives(pattern) ==
    IF \A k \in 1..Len(pattern) : pattern[k] # "|" THEN << pattern >>
    ELSE LET bar == CHOOSE k \in 1..Len(pattern) :
                        /\ pattern[k] = "|"
                        /\ \A h \in 1..(k - 1) : pattern[h] # "|"
         IN  << SubSeq(pattern, 1, bar - 1) >>
             \o Alternatives(SubSeq(pattern, bar + 1, Len(pattern)))

\* one alternative: literal characters and "." (any character), a leading
\* "^" ties the match to the start of the tool name, a trailing "$" to its
\* end; without them the match may start and end anywhere
TestAlternative(alt, toolName) ==
    LET atStart == alt # <<>> /\ Head(alt) = "^"
        rest == IF atStart THEN Tail(alt) ELSE alt
        atEnd == rest # <<>> /\ rest[Len(rest)] = "$"
        body == IF atEnd THEN SubSeq(rest, 1, Len(rest) - 1) ELSE rest
    IN  \E k \in 0..(Len(toolName) - Len(body)) :
            /\ atStart => k = 0
            /\ atEnd => k + Len(body) = Len(toolName)
            /\ \A j \in 1..Len(body) : body[j] = "." \/ body[j] = toolName[k + j]

\* a test that asks the whole tool name to match
RegExpTest_anchored(pattern, toolName) ==
    \E a \in 1..Len(Alternatives(pattern)) :
        TestAlternative(<<"^">> \o Alternatives(pattern)[a] \o <<"$">>, toolName)

\* regex.test(toolName) for the patterns above: some alternative occurs in
\* the tool name
RegExpTest(pattern, toolName) ==
    \E a \in 1..Len(Alternatives(pattern)) :
        TestAlternative(Alternatives(pattern)[a], toolName)

\* a matcher for which every rule applies to every tool
matchesPattern_always(pattern, toolName) == TRUE

\* a matcher that lets a rule with a malformed pattern apply
matchesPattern_failOpen(pattern, toolName) ==
    IF pattern = Star THEN TRUE
    ELSE IF RegExpCompiles(pattern) THEN RegExpTest(pattern, toolName)
    ELSE TRUE

matchesPattern(pattern, toolName) ==
    IF pattern = Star THEN TRUE
    ELSE IF RegExpCompiles(pattern) THEN RegExpTest(pattern, toolName)
    ELSE FALSE

\* HookCommand: hasTimeout is FALSE when `timeout` is left out
HookCommand(command, hasTimeout, timeout) ==
    [command |-> command, hasTimeout |-> hasTimeout, timeout |-> timeout]

HookMatcher(matcher, hooks) == [matcher |-> matcher, hooks |-> hooks]

\* HooksConfig: present is FALSE when the manager was built without a
\* configuration; an event type outside `listed` has no rule list
HooksConfig(present, listed, rules) ==
    [present |-> present, listed |-> listed, rules |-> rules]

NoRules == [e \in HookType |-> <<>>]

\* one rule, one command: the configurations of the hook runner's
\* specification
RunnerConfigs ==
    { HooksConfig(TRUE, {"PreToolUse"},
        [NoRules EXCEPT !["PreToolUse"] =
            << HookMatcher(Star, << HookCommand("c1", FALSE, 0) >>) >>]),
      HooksConfig(TRUE, {"PreToolUse"},
        [NoRules EXCEPT !["PreToolUse"] =
            << HookMatcher(Bash, << HookCommand("c1", TRUE, 5000) >>) >>]) }

\* several rules and commands: the configurations of the dispatcher's
\* specification
DispatchConfigs ==
    { HooksConfig(FALSE, {}, NoRules),
      HooksConfig(TRUE, {"PreToolUse", "PostToolUse"},
        [NoRules EXCEPT !["PreToolUse"] =
            << HookMatcher(Star, << HookCommand("c1", FALSE, 0) >>),
               HookMatcher(BadPattern, << HookCommand("c2", FALSE, 0) >>),
               HookMatcher(Bash, << HookCommand("c3", TRUE, 5000) >>) >>,
                         !["PostToolUse"] =
            << HookMatcher(Star, << HookCommand("c4", FALSE, 0) >>) >>]),
      HooksConfig(TRUE, {"PreToolUse", "PostToolUse"},
        [NoRules EXCEPT !["PreToolUse"] =
            << HookMatcher(Read, << HookCommand("c1", FALSE, 0),
                                    HookCommand("c2", TRUE, 5000) >>) >>]) }

\* one rule with one command, for the patterns the matcher is tried on
MatchPatterns ==
    { Star, Bash, BadPattern, <<>>, <<".">>, <<"^", "$">>,
      <<"R", "e">>, <<"a", "d">>, <<"^", "a", "d">>, <<"e", "$">>,
      <<"R", ".", "a", "d">>,
      <<"R", "e", "a", "d", "|", "B", "a", "s", "h">> }

MatchConfigs ==
    { HooksConfig(TRUE, {"PreToolUse"},
        [NoRules EXCEPT !["PreToolUse"] =
            << HookMatcher(p, << HookCommand("c1", FALSE, 0) >>) >>]) :
      p \in MatchPatterns }

\* the dispatch input: hasToolName is FALSE when input.toolName is undefined
HookInput(hookType, hasToolName, toolName) ==
    [hookType |-> hookType, hasToolName |-> hasToolName, toolName |-> toolName]

Inputs ==
    { HookInput(e, TRUE, Bash) : e \in HookType }
    \cup { HookInput("PreToolUse", TRUE, Read),
           HookInput("PostToolUse", TRUE, Read),
           HookInput("PreToolUse", FALSE, <<>>) }

NoInput == HookInput("PreToolUse", FALSE, <<>>)

\* tool names the matcher is tried on: empty, one character, Bash, Read, a
\* longer name that contains Read, and no tool name at all
MatchInputs ==
    { HookInput("PreToolUse", TRUE, n) :
        n \in { <<>>, <<"*">>, Bash, Read, <<"R", "e", "a", "d", "M", "e">>,
                <<"a", "d">> } }
    \cup { NoInput }

(***************************************************************************)
(* State.                                                                  *)
(***************************************************************************)
VARIABLES
    hooksConfig,   \* HookManager.hooksConfig
    call,          \* position of executeHooks: "idle", "waiting", "returned"
    input,         \* the HookInput of the call
    queue,         \* the hook commands queued by the call, in order
    runs,          \* one record per queued execution (executeHook closure)
    results,       \* the list executeHooks returns
    uncaught,      \* an 'error' event without listener was thrown
    budget,        \* 'data' events the children may still deliver
    world,         \* what the children and the operating system can do
    verdict,       \* what the caller derives from the returned list
    previous,      \* the call before this one: its input, closures and list
    sse,           \* one call of processStreamResponse: the generator's locals
    todo           \* one TodoDisplay: its history and what it rendered

vars == <<hooksConfig, call, input, queue, runs, results, uncaught, budget, world,
          verdict, previous, sse, todo>>

(***************************************************************************)
(* The child process of one run, as the operating system sees it.          *)
(*   shell   "none" (never started), "running", "exited" (exit status      *)
(*           known, 'close' not yet emitted), "closed" ('close' emitted)   *)
(*   code    exit code, ExitNull when ended by a signal, negative errno    *)
(*           when the spawn failed                                         *)
(*   bg      a process the shell started that outlives it: "none",         *)
(*           "piped" (holds the stdout/stderr pipes), "detached"           *)
(*   sig     SIGTERM: "none", "dying" (delivered, will end the shell),     *)
(*           "ignored" (delivered to a shell that traps it), "killed"      *)
(*           (it ended the shell), "denied" (it could not be sent: EPERM)  *)
(*   out     the chunks the child has written to stdout so far, in the     *)
(*           order of their 'data' events                                  *)
(*   err     likewise for stderr                                           *)
(***************************************************************************)
Child(shell, code, bg, sig) ==
    [shell |-> shell, code |-> code, bg |-> bg, sig |-> sig,
     out |-> <<>>, err |-> <<>>]

NoChild == Child("none", 0, "none", "none")

ENOENT == -2

\* Promise of one executeHook call; via names the place that settled it:
\* "close" / "error" (the handlers), "stdin" (the catch around the write),
\* "throw" (the executor threw)
Pending == [status |-> "pending", value |-> NoResult, reason |-> <<>>, via |-> "none"]
Fulfilled(r, via) == [status |-> "fulfilled", value |-> r, reason |-> <<>>, via |-> via]
Rejected(e) == [status |-> "rejected", value |-> NoResult, reason |-> e, via |-> "throw"]

\* a promise whose last settlement stands
resolve_last(promise, r, via) == Fulfilled(r, via)

\* resolve(r): the first settlement of a promise stands
resolve(promise, r, via) ==
    IF promise.status = "pending" THEN Fulfilled(r, via) ELSE promise

\* a handler that leaves the timer as it is
clearTimeout_keep(timeoutId) == timeoutId

clearTimeout(timeoutId) ==
    IF timeoutId = "armed" THEN "cleared" ELSE timeoutId

\* hook.timeout ?? DEFAULT_HOOK_TIMEOUT
Timeout(hook) == IF hook.hasTimeout THEN hook.timeout ELSE DEFAULT_HOOK_TIMEOUT

TimeoutNotice(timeout) == <<"Hook timed out after ", ToString(timeout), "ms\n">>

\* the outcome of the catch around the stdin write
StdinFailure == HookResult(1, <<>>, <<"Failed to write to stdin: ", "error">>, JSFalse, NoResponse)

\* an 'error' handler that fails closed
SpawnFailure_blocking(message) ==
    HookResult(BLOCKING_EXIT_CODE, <<>>, <<"Failed to spawn hook: ", message>>, JSTrue, NoResponse)

\* the outcome of the 'error' handler
SpawnFailure(message) == HookResult(1, <<>>, <<"Failed to spawn hook: ", message>>, JSFalse, NoResponse)

(***************************************************************************)
(* What the environment does to one execution while its executor runs.     *)
(*   "ok"          the shell starts and the write is accepted              *)
(*   "stdinThrow"  the shell starts, the try block around the write throws *)
(*   "stdinEpipe"  the shell starts, the write fails later (EPIPE): an     *)
(*                 'error' event on child.stdin                            *)
(*   "spawnError"  spawn reports the failure by a later 'error' event      *)
(*   "spawnThrow"  spawn throws                                            *)
(***************************************************************************)
Fates ==
    { [fate |-> "ok", bg |-> b] : b \in {"none", "piped", "detached"} }
    \cup { [fate |-> f, bg |-> "none"] :
             f \in {"stdinThrow", "stdinEpipe", "spawnError", "spawnThrow"} }

\* The repertoire of the environment: every child of the hook runner's
\* specification, a smaller one where several children run side by side
World(inputs, fates, codes, outChunks, errChunks) ==
    [inputs |-> inputs, fates |-> fates, codes |-> codes,
     stdoutChunks |-> outChunks, stderrChunks |-> errChunks]

RunnerWorld ==
    World(Inputs, Fates, ExitCodes \cup {ExitNull}, StdoutChunks, StderrChunks)

DispatchWorld ==
    World(Inputs, { e \in Fates : e.bg # "piped" }, {0, BLOCKING_EXIT_CODE},
          { <<"{", "block:true", ",", "message:X", "}">> }, StderrChunks)

\* the children of the matcher's specification
MatchWorld == [DispatchWorld EXCEPT !.inputs = MatchInputs]

\* the closure of one executeHook call after its executor has run
Run(hook, promise, out, err, timedOut, timeoutId, listening, pending, child) ==
    [hook |-> hook, promise |-> promise, stdout |-> out, stderr |-> err,
     timedOut |-> timedOut, timeoutId |-> timeoutId, listening |-> listening,
     pending |-> pending, child |-> child]

\* executeHook(hook, input): the promise executor, run to its end
executeHook(hook, env) ==
    CASE env.fate = "spawnThrow" ->
            Run(hook, Rejected(<<"Error: ", "spawn">>), <<>>, <<>>, FALSE,
                "unset", FALSE, "none", NoChild)
      [] env.fate = "stdinThrow" ->
            Run(hook, resolve(Pending, StdinFailure, "stdin"), <<>>, <<>>, FALSE,
                clearTimeout("armed"), FALSE, "none",
                Child("running", 0, env.bg, "none"))
      [] env.fate = "spawnError" ->
            Run(hook, Pending, <<>>, <<>>, FALSE, "armed", TRUE, "spawnError",
                Child("exited", ENOENT, "none", "none"))
      [] env.fate = "stdinEpipe" ->
            Run(hook, Pending, <<>>, <<>>, FALSE, "armed", TRUE, "stdinError",
                Child("running", 0, env.bg, "none"))
      [] OTHER ->
            Run(hook, Pending, <<>>, <<>>, FALSE, "armed", TRUE, "none",
                Child("running", 0, env.bg, "none"))

\* a close handler that takes the child's exit code also after a timeout
actualExitCode_real(timedOut, exitCode) ==
    IF exitCode = ExitNull THEN 1 ELSE exitCode

\* a close handler that reports a child without exit code as a success
actualExitCode_nullZero(timedOut, exitCode) ==
    IF timedOut THEN 1
    ELSE IF exitCode = ExitNull THEN 0 ELSE exitCode

\* timedOut ? 1 : (exitCode ?? 1)
actualExitCode(timedOut, exitCode) ==
    IF timedOut THEN 1
    ELSE IF exitCode = ExitNull THEN 1 ELSE exitCode

\* a close handler that blocks on every failing exit code
shouldBlock_nonzero(code) == JSBool(code # 0)

\* actualExitCode === BLOCKING_EXIT_CODE
shouldBlock(code) == JSBool(code = BLOCKING_EXIT_CODE)

\* a close handler that tests the flag for truth instead of presence
explicitBlock_truthy(response) ==
    response.kind = "object" /\ response.hasBlock /\ response.block = JSTrue

\* response.block !== undefined (reading .block of null throws, which the
\* catch swallows)
explicitBlock(response) == response.kind = "object" /\ response.hasBlock

\* a close handler that attaches the response only with its explicit flag
closeResult_dropResponse(out, err, timedOut, timeout, exitCode) ==
    LET code == actualExitCode(timedOut, exitCode)
        parsed == JSONparse(out)
        response == IF trim(out) # <<>> /\ parsed.ok THEN parsed.value ELSE NoResponse
    IN  IF explicitBlock(response)
        THEN HookResult(code, out, err, response.block, response)
        ELSE HookResult(code, out,
                        IF timedOut THEN TimeoutNotice(timeout) \o err ELSE err,
                        shouldBlock(code), NoResponse)

\* a close handler that decides by the exit code alone
closeResult_exitCodeOnly(out, err, timedOut, timeout, exitCode) ==
    LET code == actualExitCode(timedOut, exitCode)
        parsed == JSONparse(out)
        response == IF trim(out) # <<>> /\ parsed.ok THEN parsed.value ELSE NoResponse
    IN  HookResult(code, out,
                   IF timedOut THEN TimeoutNotice(timeout) \o err ELSE err,
                   shouldBlock(code), response)

\* a close handler that leaves stdout out of an outcome with a parsed flag
closeResult_noStdout(out, err, timedOut, timeout, exitCode) ==
    LET code == actualExitCode(timedOut, exitCode)
        parsed == JSONparse(out)
        response == IF trim(out) # <<>> /\ parsed.ok THEN parsed.value ELSE NoResponse
    IN  IF explicitBlock(response)
        THEN HookResult(code, <<>>, err, response.block, response)
        ELSE HookResult(code, out,
                        IF timedOut THEN TimeoutNotice(timeout) \o err ELSE err,
                        shouldBlock(code), response)

\* the 'close' handler's outcome
closeResult(out, err, timedOut, timeout, exitCode) ==
    LET code == actualExitCode(timedOut, exitCode)
        parsed == JSONparse(out)
        \* `response` when the try block is left
        response == IF trim(out) # <<>> /\ parsed.ok THEN parsed.value ELSE NoResponse
    IN  IF explicitBlock(response)
        THEN HookResult(code, out, err, response.block, response)
        ELSE HookResult(code, out,
                        IF timedOut THEN TimeoutNotice(timeout) \o err ELSE err,
                        shouldBlock(code), response)

(***************************************************************************)
(* executeHooks.                                                           *)
(***************************************************************************)
\* a queue that takes the first command of every matching rule only
RECURSIVE Queue_firstHook(_, _)
Queue_firstHook(matchers, subject) ==
    IF matchers = <<>> THEN <<>>
    ELSE (IF matchesPattern(Head(matchers).matcher, subject)
          THEN SubSeq(Head(matchers).hooks, 1, 1) ELSE <<>>)
         \o Queue_firstHook(Tail(matchers), subject)

\* matchers.flatMap(...): the commands of the matching rules, in order
RECURSIVE Queue(_, _)
Queue(matchers, subject) ==
    IF matchers = <<>> THEN <<>>
    ELSE (IF matchesPattern(Head(matchers).matcher, subject)
          THEN Head(matchers).hooks ELSE <<>>)
         \o Queue(Tail(matchers), subject)

\* a lookup that falls back to the PreToolUse rules for an event without
\* rule list
Matchers_fallback(config, hookType) ==
    IF config.present /\ hookType \in config.listed /\ config.rules[hookType] # <<>>
    THEN config.rules[hookType] ELSE config.rules["PreToolUse"]

\* the rule list of the event; <<>> also when the event has none
Matchers(config, hookType) ==
    IF config.present /\ hookType \in config.listed
    THEN config.rules[hookType] ELSE <<>>

\* a subject that is the empty string when the input has no tool name
Subject_empty(inp) == IF inp.hasToolName THEN inp.toolName ELSE <<>>

\* input.toolName ?? '*'
Subject(inp) == IF inp.hasToolName THEN inp.toolName ELSE Star

\* a dispatch that takes the rules it runs out of the configuration
Dispatch_consuming(inp) ==
    /\ call = "idle"
    /\ ~uncaught
    /\ LET q == Queue(Matchers(hooksConfig, inp.hookType), Subject(inp))
       IN  \E envs \in [1..Len(q) -> world.fates] :
             /\ input' = inp
             /\ queue' = q
             /\ runs' = [i \in 1..Len(q) |-> executeHook(q[i], envs[i])]
             /\ call' = IF Len(q) = 0 THEN "returned" ELSE "waiting"
             /\ results' = <<>>
    /\ hooksConfig' = [hooksConfig EXCEPT !.rules[inp.hookType] = <<>>]
    /\ UNCHANGED <<uncaught, budget, world, verdict, previous, sse, todo>>

\* executeHooks up to its await: the early returns, or every queued
\* executor run to its end
Dispatch(inp) ==
    /\ call = "idle"
    /\ ~uncaught
    /\ LET q == Queue(Matchers(hooksConfig, inp.hookType), Subject(inp))
       IN  \E envs \in [1..Len(q) -> world.fates] :
             /\ input' = inp
             /\ queue' = q
             /\ runs' = [i \in 1..Len(q) |-> executeHook(q[i], envs[i])]
             /\ call' = IF Len(q) = 0 THEN "returned" ELSE "waiting"
             /\ results' = <<>>
    /\ UNCHANGED <<hooksConfig, uncaught, budget, world, verdict, previous, sse, todo>>

\* a result list that takes the value of every promise
Settled_raw(promise) == promise.value

\* the element of the result list for one settled promise
Settled(promise) ==
    IF promise.status = "fulfilled" THEN promise.value
    ELSE HookResult(1, <<>>, promise.reason, JSFalse, NoResponse)

\* a call that keeps its list between calls
Return_accumulate ==
    /\ call = "waiting"
    /\ ~uncaught
    /\ \A i \in 1..Len(runs) : runs[i].promise.status # "pending"
    /\ results' = previous.results \o [i \in 1..Len(runs) |-> Settled(runs[i].promise)]
    /\ call' = "returned"
    /\ UNCHANGED <<hooksConfig, input, queue, runs, uncaught, budget, world, verdict, previous, sse, todo>>

\* a call that returns with the first settled execution
Return_first ==
    /\ call = "waiting"
    /\ ~uncaught
    /\ \E i \in 1..Len(runs) : runs[i].promise.status # "pending"
    /\ results' = [i \in 1..Len(runs) |-> Settled(runs[i].promise)]
    /\ call' = "returned"
    /\ UNCHANGED <<hooksConfig, input, queue, runs, uncaught, budget, world, verdict, previous, sse, todo>>

\* a call whose list is in the order the promises were settled, as far as
\* the closures tell it: those settled without a 'close' event first
Return_completion ==
    /\ call = "waiting"
    /\ ~uncaught
    /\ \A i \in 1..Len(runs) : runs[i].promise.status # "pending"
    /\ results' =
          LET settled == [i \in 1..Len(runs) |-> runs[i].promise]
          IN  [i \in 1..Len(runs) |->
                 Settled((SelectSeq(settled, LAMBDA q : q.via # "close")
                          \o SelectSeq(settled, LAMBDA q : q.via = "close"))[i])]
    /\ call' = "returned"
    /\ UNCHANGED <<hooksConfig, input, queue, runs, uncaught, budget, world, verdict, previous, sse, todo>>

\* executeHooks after `await Promise.allSettled(executions)`
Return ==
    /\ call = "waiting"
    /\ ~uncaught
    /\ \A i \in 1..Len(runs) : runs[i].promise.status # "pending"
    /\ results' = [i \in 1..Len(runs) |-> Settled(runs[i].promise)]
    /\ call' = "returned"
    /\ UNCHANGED <<hooksConfig, input, queue, runs, uncaught, budget, world, verdict, previous, sse, todo>>

(***************************************************************************)
(* Verdict: shouldBlockOperation and getBlockingMessage, which the caller  *)
(* applies to the list executeHooks returned.                              *)
(***************************************************************************)
\* the truth value JavaScript gives a value in a condition
Truthy(v) ==
    CASE v.t = "boolean" -> v.v = "true"
      [] v.t = "string"  -> v.v # ""
      [] v.t = "number"  -> v.v # "0"
      [] OTHER           -> FALSE

\* a verdict that asks every outcome to block
shouldBlockOperation_every(list) ==
    \A k \in 1..Len(list) : Truthy(list[k].shouldBlock)

\* results.some((result) => result.shouldBlock)
shouldBlockOperation(list) ==
    \E k \in 1..Len(list) : Truthy(list[k].shouldBlock)

Fallback == <<"Hook blocked operation (no message provided)">>

\* a text that prefers stderr to the response's message
BlockingText_stderrFirst(r) ==
    IF r.stderr # <<>> THEN r.stderr
    ELSE IF r.response.hasMessage /\ r.response.message # <<>> THEN r.response.message
    ELSE IF r.stdout # <<>> THEN r.stdout
    ELSE Fallback

\* a text without the fixed string
BlockingText_noFallback(r) ==
    IF r.response.hasMessage /\ r.response.message # <<>> THEN r.response.message
    ELSE IF r.stderr # <<>> THEN r.stderr
    ELSE r.stdout

\* the callback of blockingResults.map: r.response?.message, else stderr,
\* else stdout, else the fixed string
BlockingText(r) ==
    IF r.response.hasMessage /\ r.response.message # <<>> THEN r.response.message
    ELSE IF r.stderr # <<>> THEN r.stderr
    ELSE IF r.stdout # <<>> THEN r.stdout
    ELSE Fallback

\* texts.join('\n')
RECURSIVE join(_)
join(texts) ==
    IF texts = <<>> THEN <<>>
    ELSE IF Len(texts) = 1 THEN Head(texts)
    ELSE Head(texts) \o <<"\n">> \o join(Tail(texts))

\* a message with a text for every outcome of the list
getBlockingMessage_all(list) ==
    IF \A k \in 1..Len(list) : ~Truthy(list[k].shouldBlock) THEN <<>>
    ELSE join([k \in 1..Len(list) |-> BlockingText(list[k])])

getBlockingMessage(list) ==
    LET blockingResults == SelectSeq(list, LAMBDA r : Truthy(r.shouldBlock))
    IN  IF Len(blockingResults) = 0 THEN <<>>
        ELSE join([k \in 1..Len(blockingResults) |-> BlockingText(blockingResults[k])])

NoVerdict == [computed |-> FALSE, blocked |-> FALSE, message |-> <<>>]

\* a caller that takes a block from the PreToolUse event only
Aggregate_preToolOnly ==
    /\ call = "returned"
    /\ ~uncaught
    /\ ~verdict.computed
    /\ verdict' = [computed |-> TRUE,
                   blocked |-> input.hookType = "PreToolUse"
                               /\ shouldBlockOperation(results),
                   message |-> getBlockingMessage(results)]
    /\ UNCHANGED <<hooksConfig, call, input, queue, runs, results, uncaught,
                   budget, world, previous, sse, todo>>

\* the caller of executeHooks derives the verdict from the returned list
Aggregate ==
    /\ call = "returned"
    /\ ~uncaught
    /\ ~verdict.computed
    /\ verdict' = [computed |-> TRUE,
                   blocked |-> shouldBlockOperation(results),
                   message |-> getBlockingMessage(results)]
    /\ UNCHANGED <<hooksConfig, call, input, queue, runs, results, uncaught,
                   budget, world, previous, sse, todo>>

NoPrevious == [done |-> FALSE, input |-> NoInput, runs |-> <<>>, results |-> <<>>]

\* the caller dispatches again on the same manager once the call has
\* returned (the closures of the returned call are kept as they are; none of
\* them has an 'error' event of its stdin still to come)
Again ==
    /\ call = "returned"
    /\ ~uncaught
    /\ ~previous.done
    /\ \A i \in 1..Len(runs) : runs[i].pending = "none"
    /\ previous' = [done |-> TRUE, input |-> input, runs |-> runs, results |-> results]
    /\ call' = "idle"
    /\ input' = NoInput
    /\ queue' = <<>>
    /\ runs' = <<>>
    /\ results' = <<>>
    /\ verdict' = NoVerdict
    /\ UNCHANGED <<hooksConfig, uncaught, budget, world, sse, todo>>

(***************************************************************************)
(* Events of one execution.                                                *)
(***************************************************************************)
\* callbacks queued with process.nextTick run before any timer or I/O
\* callback
TickQueueEmpty == \A j \in 1..Len(runs) : runs[j].pending # "spawnError"

\* child.on('error') after a failed spawn
SpawnErrorEvent(i) ==
    /\ ~uncaught
    /\ runs[i].pending = "spawnError"
    /\ runs' = [runs EXCEPT ![i].pending = "none",
                            ![i].timeoutId = clearTimeout(@),
                            ![i].promise = resolve(@, SpawnFailure("spawn ENOENT"), "error")]
    /\ UNCHANGED <<hooksConfig, call, input, queue, results, uncaught, budget, world, verdict, previous, sse, todo>>

\* 'error' on child.stdin: no listener is attached to that stream, the
\* event is thrown as an uncaught exception
StdinErrorEvent(i) ==
    /\ ~uncaught
    /\ runs[i].pending = "stdinError"
    /\ runs' = [runs EXCEPT ![i].pending = "none"]
    /\ uncaught' = TRUE
    /\ UNCHANGED <<hooksConfig, call, input, queue, results, budget, world, verdict, previous, sse, todo>>

\* one stdout buffer for all the executions of the manager
StdoutData_shared(i, chunk) ==
    /\ ~uncaught
    /\ TickQueueEmpty
    /\ runs[i].listening
    /\ runs[i].child.shell \in {"running", "exited"}
    /\ budget > 0
    /\ budget' = budget - 1
    /\ runs' = [j \in 1..Len(runs) |->
                  [runs[j] EXCEPT !.stdout = @ \o toString(chunk),
                                  !.child.out = IF j = i THEN Append(@, chunk) ELSE @]]
    /\ UNCHANGED <<hooksConfig, call, input, queue, results, uncaught, world, verdict, previous, sse, todo>>

\* child.stdout.on('data')
StdoutData(i, chunk) ==
    /\ ~uncaught
    /\ TickQueueEmpty
    /\ runs[i].listening
    /\ runs[i].child.shell \in {"running", "exited"}
    /\ budget > 0
    /\ budget' = budget - 1
    /\ runs' = [runs EXCEPT ![i].stdout = @ \o toString(chunk),
                            ![i].child.out = Append(@, chunk)]
    /\ UNCHANGED <<hooksConfig, call, input, queue, results, uncaught, world, verdict, previous, sse, todo>>

\* child.stderr.on('data')
StderrData(i, chunk) ==
    /\ ~uncaught
    /\ TickQueueEmpty
    /\ runs[i].listening
    /\ runs[i].child.shell \in {"running", "exited"}
    /\ budget > 0
    /\ budget' = budget - 1
    /\ runs' = [runs EXCEPT ![i].stderr = @ \o toString(chunk),
                            ![i].child.err = Append(@, chunk)]
    /\ UNCHANGED <<hooksConfig, call, input, queue, results, uncaught, world, verdict, previous, sse, todo>>

\* the setTimeout callback: child.kill('SIGTERM') signals the shell only;
\* kill emits 'error' when the signal cannot be sent (EPERM) and does
\* nothing when the shell has already exited
TimerFire(i) ==
    /\ ~uncaught
    /\ TickQueueEmpty
    /\ runs[i].timeoutId = "armed"
    /\ \/ /\ runs[i].child.shell = "running"
          /\ \E s \in {"dying", "ignored"} :
                runs' = [runs EXCEPT ![i].timedOut = TRUE,
                                     ![i].timeoutId = "fired",
                                     ![i].child.sig = s]
       \/ /\ runs[i].child.shell = "running"
          /\ runs[i].listening
          /\ runs' = [runs EXCEPT ![i].timedOut = TRUE,
                                  ![i].timeoutId = "fired",
                                  ![i].child.sig = "denied",
                                  ![i].promise = resolve(@, SpawnFailure("kill EPERM"), "error")]
       \/ /\ runs[i].child.shell # "running"
          /\ runs' = [runs EXCEPT ![i].timedOut = TRUE,
                                  ![i].timeoutId = "fired"]
    /\ UNCHANGED <<hooksConfig, call, input, queue, results, uncaught, budget, world, verdict, previous, sse, todo>>

\* the shell ends on its own account, or by a signal from elsewhere
ShellExit(i, code) ==
    /\ ~uncaught
    /\ runs[i].child.shell = "running"
    /\ runs' = [runs EXCEPT ![i].child.shell = "exited", ![i].child.code = code]
    /\ UNCHANGED <<hooksConfig, call, input, queue, results, uncaught, budget, world, verdict, previous, sse, todo>>

\* the shell is ended by the SIGTERM of the timeout
TermDeath(i) ==
    /\ ~uncaught
    /\ runs[i].child.shell = "running"
    /\ runs[i].child.sig = "dying"
    /\ runs' = [runs EXCEPT ![i].child.shell = "exited",
                            ![i].child.code = ExitNull,
                            ![i].child.sig = "killed"]
    /\ UNCHANGED <<hooksConfig, call, input, queue, results, uncaught, budget, world, verdict, previous, sse, todo>>

\* a process the shell started ends
BgExit(i) ==
    /\ ~uncaught
    /\ runs[i].child.bg # "none"
    /\ runs' = [runs EXCEPT ![i].child.bg = "none"]
    /\ UNCHANGED <<hooksConfig, call, input, queue, results, uncaught, budget, world, verdict, previous, sse, todo>>

\* child.on('close'): emitted once the shell has exited and every holder of
\* its stdout/stderr pipes has closed them
CanClose(i) ==
    /\ ~uncaught
    /\ TickQueueEmpty
    /\ runs[i].listening
    /\ runs[i].child.shell = "exited"
    /\ runs[i].child.bg # "piped"

Close(i) ==
    /\ CanClose(i)
    /\ runs' = [runs EXCEPT
                  ![i].child.shell = "closed",
                  ![i].timeoutId = clearTimeout(@),
                  ![i].promise =
                      resolve(@, closeResult(runs[i].stdout, runs[i].stderr,
                                             runs[i].timedOut,
                                             Timeout(runs[i].hook),
                                             runs[i].child.code),
                              "close")]
    /\ UNCHANGED <<hooksConfig, call, input, queue, results, uncaught, budget, world, verdict, previous, sse, todo>>

(***************************************************************************)
(* MechLLMsContentGenerator.processStreamResponse: the async generator     *)
(* that turns the body of a streaming response into responses.             *)
(* The body is a sequence of tokens:                                       *)
(*   "data:" " "            the six characters `data: `                    *)
(*   "{" "}" ","            JSON punctuation                               *)
(*   "content:"             the key of choices[0].delta.content            *)
(*   "error:" "usage:"      the keys of the event's error and usage        *)
(*   "a" "b" "E" "U"        characters of a value                          *)
(*   "0xC3" "0xA9"          the two bytes of one character of a value      *)
(*   "null"                 the JSON literal null                          *)
(*   "[DONE]"               the end marker                                 *)
(*   "x"                    text that is not JSON                          *)
(*   "\n"                   the line feed                                  *)
(***************************************************************************)
MaxLines == 2

SseKeys == {"content:", "error:", "usage:"}

SseValueChars == {"a", "b", "E", "U", "e-acute", "U+FFFD"}

DataPrefix == <<"data:", " ">>

\* the lines a body is made of, without their line feed
LineA == DataPrefix \o <<"{", "content:", "a", "}">>

LineAccent == DataPrefix \o <<"{", "content:", "0xC3", "0xA9", "}">>

LineBad == DataPrefix \o <<"x">>

LineError == DataPrefix \o <<"{", "error:", "E", "}">>

LineUsage == DataPrefix \o <<"{", "content:", "b", ",", "usage:", "U", "}">>

LineDone == DataPrefix \o <<"[DONE]">>

SseLines == { LineA, LineAccent, LineBad, LineError, LineUsage, LineDone, <<>> }

\* the lines, each followed by a line feed, the last one only when
\* terminated is TRUE
RECURSIVE Body(_, _)
Body(ls, terminated) ==
    IF ls = <<>> THEN <<>>
    ELSE IF Len(ls) = 1 THEN Head(ls) \o (IF terminated THEN <<"\n">> ELSE <<>>)
    ELSE Head(ls) \o <<"\n">> \o Body(Tail(ls), terminated)

\* every body of up to MaxLines lines, and two longer ones: a line that is
\* no JSON, or an event with an error, between two events with content
SseBodies ==
    { Body(ls, terminated) :
        ls \in UNION { [1..n -> SseLines] : n \in 0..MaxLines }
               \cup { <<LineA, LineBad, LineUsage>>, <<LineA, LineError, LineUsage>> },
        terminated \in BOOLEAN }

\* decoder.decode(value, {stream: true}): the first byte of a character at
\* the end of the input is kept for the next call
decode(pending, value) ==
    LET bytes == pending \o value
    IN  IF bytes # <<>> /\ bytes[Len(bytes)] = "0xC3"
        THEN [text |-> toString(SubSeq(bytes, 1, Len(bytes) - 1)), pending |-> <<"0xC3">>]
        ELSE [text |-> toString(bytes), pending |-> <<>>]

\* s.split('\n')
RECURSIVE split(_)
split(s) ==
    IF \A k \in 1..Len(s) : s[k] # "\n" THEN <<s>>
    ELSE LET k == CHOOSE j \in 1..Len(s) :
                      s[j] = "\n" /\ \A h \in 1..(j - 1) : s[h] # "\n"
         IN  <<SubSeq(s, 1, k - 1)>> \o split(SubSeq(s, k + 1, Len(s)))

\* line.startsWith('data: ')
startsWith(line, prefix) ==
    Len(line) >= Len(prefix) /\ SubSeq(line, 1, Len(prefix)) = prefix

\* the event of one line as parsed: kind is "null" for the literal null
NoEvent ==
    [kind |-> "object", content |-> <<>>, error |-> <<>>, usage |-> <<>>]

\* the characters of a value at the head of s
RECURSIVE ValueLength(_)
ValueLength(s) ==
    IF s # <<>> /\ Head(s) \in SseValueChars THEN 1 + ValueLength(Tail(s)) ELSE 0

\* the members `key value , key value` of an event: ok is FALSE on a syntax
\* error
RECURSIVE ParseEventMembers(_, _)
ParseEventMembers(body, obj) ==
    IF body = <<>> \/ Head(body) \notin SseKeys THEN [ok |-> FALSE, value |-> obj]
    ELSE LET n == ValueLength(Tail(body))
             value == SubSeq(body, 2, n + 1)
             after == SubSeq(body, n + 2, Len(body))
             set == CASE Head(body) = "content:" -> [obj EXCEPT !.content = value]
                      [] Head(body) = "error:"   -> [obj EXCEPT !.error = value]
                      [] Head(body) = "usage:"   -> [obj EXCEPT !.usage = value]
         IN  IF after = <<>> THEN [ok |-> TRUE, value |-> set]
             ELSE IF Head(after) # "," \/ Len(after) = 1 THEN [ok |-> FALSE, value |-> obj]
             ELSE ParseEventMembers(Tail(after), set)

\* JSON.parse(line.slice(6)): ok is FALSE where it throws a SyntaxError
JSONparseEvent(text) ==
    LET s == SelectSeq(text, LAMBDA c : c # " ")
    IN  IF s = <<"null">> THEN [ok |-> TRUE, value |-> [NoEvent EXCEPT !.kind = "null"]]
        ELSE IF Len(s) >= 2 /\ Head(s) = "{" /\ s[Len(s)] = "}"
        THEN IF Len(s) = 2 THEN [ok |-> TRUE, value |-> NoEvent]
             ELSE ParseEventMembers(SubSeq(s, 2, Len(s) - 1), NoEvent)
        ELSE [ok |-> FALSE, value |-> NoEvent]

\* the responses the generator yields
ChunkResponse(text) == [text |-> text, finishReason |-> "none", usage |-> <<>>]

FinalResponse(text, usage) == [text |-> text, finishReason |-> "STOP", usage |-> usage]

\* the locals of the generator; pc is "none" (no call), "start", "read" (at
\* reader.read()), "lines" (in the for loop), "done" (returned) or "raised"
\* (an exception left the generator)
Stream(pc, hasBody, body) ==
    [pc |-> pc, hasBody |-> hasBody, body |-> body, offset |-> 0,
     pending |-> <<>>, buffer |-> <<>>, lines |-> <<>>,
     accumulatedText |-> <<>>, totalUsage |-> <<>>, yielded |-> <<>>,
     log |-> <<>>, raised |-> <<>>, locked |-> FALSE]

NoStream == Stream("none", FALSE, <<>>)

\* console.error('Failed to parse SSE chunk:', parseError)
Logged(st, parseError) == [st EXCEPT !.log = Append(@, parseError)]

\* a loop body that ends the stream at a line it cannot parse
ProcessLine_strict(st, line) ==
    IF trim(line) = <<>> THEN st
    ELSE IF trim(line) = LineDone THEN st
    ELSE IF ~startsWith(line, DataPrefix) THEN st
    ELSE LET parsed == JSONparseEvent(SubSeq(line, 3, Len(line)))
             data == parsed.value
         IN  IF ~parsed.ok
             THEN [st EXCEPT !.pc = "raised", !.raised = <<"SyntaxError">>,
                             !.locked = FALSE]
             ELSE IF data.kind = "null" THEN Logged(st, <<"TypeError">>)
             ELSE IF data.error # <<>> THEN Logged(st, <<"Error: ">> \o data.error)
             ELSE LET st1 == IF data.content # <<>>
                             THEN [st EXCEPT
                                     !.accumulatedText = @ \o data.content,
                                     !.yielded = Append(@, ChunkResponse(
                                                    st.accumulatedText \o data.content))]
                             ELSE st
                  IN  IF data.usage # <<>> THEN [st1 EXCEPT !.totalUsage = data.usage]
                      ELSE st1

\* the body of `for (const line of lines)`: blank lines, the end marker and
\* lines that are no `data: ` line are skipped; whatever is thrown while the
\* event is parsed and read, the error of the event included, is caught and
\* logged
ProcessLine(st, line) ==
    IF trim(line) = <<>> THEN st
    ELSE IF trim(line) = LineDone THEN st
    ELSE IF ~startsWith(line, DataPrefix) THEN st
    ELSE LET parsed == JSONparseEvent(SubSeq(line, 3, Len(line)))
             data == parsed.value
         IN  IF ~parsed.ok THEN Logged(st, <<"SyntaxError">>)
             ELSE IF data.kind = "null" THEN Logged(st, <<"TypeError">>)
             ELSE IF data.error # <<>> THEN Logged(st, <<"Error: ">> \o data.error)
             ELSE LET st1 == IF data.content # <<>>
                             THEN [st EXCEPT
                                     !.accumulatedText = @ \o data.content,
                                     !.yielded = Append(@, ChunkResponse(
                                                    st.accumulatedText \o data.content))]
                             ELSE st
                  IN  IF data.usage # <<>> THEN [st1 EXCEPT !.totalUsage = data.usage]
                      ELSE st1

\* response.body?.getReader(), or the exception for a response without body
SseStart ==
    /\ sse.pc = "start"
    /\ sse' = IF sse.hasBody THEN [sse EXCEPT !.pc = "read", !.locked = TRUE]
              ELSE [sse EXCEPT !.pc = "raised",
                               !.raised = <<"Response body is not readable">>]
    /\ UNCHANGED <<hooksConfig, call, input, queue, runs, results, uncaught, budget,
                   world, verdict, previous, todo>>

\* reader.read() gives the next n bytes of the body: they are decoded and
\* added to the buffer, whose complete lines go to the for loop
SseRead(n) ==
    /\ sse.pc = "read"
    /\ sse.offset + n <= Len(sse.body)
    /\ LET decoded == decode(sse.pending,
                             SubSeq(sse.body, sse.offset + 1, sse.offset + n))
           pieces == split(sse.buffer \o decoded.text)
           lines == SubSeq(pieces, 1, Len(pieces) - 1)
       IN  sse' = [sse EXCEPT !.offset = @ + n,
                              !.pending = decoded.pending,
                              !.buffer = pieces[Len(pieces)],
                              !.lines = lines,
                              !.pc = IF lines = <<>> THEN "read" ELSE "lines"]
    /\ UNCHANGED <<hooksConfig, call, input, queue, runs, results, uncaught, budget,
                   world, verdict, previous, todo>>

\* reader.read() rejects (the connection broke): the exception leaves the
\* generator through the finally block
SseReadError ==
    /\ sse.pc = "read"
    /\ sse' = [sse EXCEPT !.pc = "raised", !.raised = <<"read failed">>,
                          !.locked = FALSE]
    /\ UNCHANGED <<hooksConfig, call, input, queue, runs, results, uncaught, budget,
                   world, verdict, previous, todo>>

\* one round of the for loop
SseLine ==
    /\ sse.pc = "lines"
    /\ LET rest == Tail(sse.lines)
           st == ProcessLine([sse EXCEPT !.lines = rest], Head(sse.lines))
       IN  sse' = IF st.pc = "lines" /\ rest = <<>> THEN [st EXCEPT !.pc = "read"]
                  ELSE st
    /\ UNCHANGED <<hooksConfig, call, input, queue, runs, results, uncaught, budget,
                   world, verdict, previous, todo>>

\* reader.read() reports the end of the body: the loop is left, the final
\* response is yielded when a usage was captured, the lock is released
SseDone ==
    /\ sse.pc = "read"
    /\ sse.offset = Len(sse.body)
    /\ sse' = [sse EXCEPT
                 !.pc = "done",
                 !.locked = FALSE,
                 !.yielded = IF sse.totalUsage # <<>>
                             THEN Append(@, FinalResponse(sse.accumulatedText,
                                                          sse.totalUsage))
                             ELSE @]
    /\ UNCHANGED <<hooksConfig, call, input, queue, runs, results, uncaught, budget,
                   world, verdict, previous, todo>>

(***************************************************************************)
(* TodoDisplay: the component that shows the todo in progress.             *)
(* A resultDisplay is a sequence of tokens:                                *)
(*   "- "                          the bullet of a todo line               *)
(*   "[pending]" "[in_progress]"   the status of a todo                    *)
(*   " "                           a blank                                 *)
(*   "\\" "s"                      a backslash, the letter s               *)
(*   "Task A" ...                  a description                           *)
(*   "\n"                          the line feed                           *)
(***************************************************************************)
MaxHistory == 3

\* a tool call of a tool group; isString is FALSE for a resultDisplay that
\* is no string
Tool(name, isString, resultDisplay) ==
    [name |-> name, isString |-> isString, resultDisplay |-> resultDisplay]

HistoryItem(type, tools) == [type |-> type, tools |-> tools]

TodoLine(status, description) == <<"- ", status, " ", description, "\n">>

HistoryItems ==
    { HistoryItem("user", <<>>),
      HistoryItem("tool_group",
          << Tool("read_file", TRUE, TodoLine("[in_progress]", "Task R")) >>),
      HistoryItem("tool_group",
          << Tool("Write Todos", TRUE,
                  <<"\n">> \o TodoLine("[pending]", "Task 1")
                           \o TodoLine("[completed]", "Task 2")) >>),
      HistoryItem("tool_group",
          << Tool("Write Todos", TRUE,
                  <<"\n">> \o TodoLine("[pending]", "Task A")
                           \o TodoLine("[in_progress]", "Task B")) >>),
      HistoryItem("tool_group",
          << Tool("Write Todos", TRUE,
                  <<"\n">> \o TodoLine("[in_progress]", "Old Task")) >>),
      HistoryItem("tool_group",
          << Tool("read_file", TRUE, <<"file content">>),
             Tool("Write Todos", TRUE,
                  <<"- ", "[in_progress]", "\\", "s", "s", " ", "Task S", "\n">>) >>),
      HistoryItem("tool_group", << Tool("Write Todos", FALSE, <<>>) >>) }

\* the value of the memo: null, or the text of the first capture group
Null == [isNull |-> TRUE, text |-> <<>>]

Description(text) == [isNull |-> FALSE, text |-> text]

\* the letters s at the head of the text, left out
RECURSIVE SkipS(_)
SkipS(text) == IF text # <<>> /\ Head(text) = "s" THEN SkipS(Tail(text)) ELSE text

\* line.match(/\[in_progress\]\\s*(.*)/): the status, a backslash, any
\* number of letters s, and the rest of the line as the capture group
match(line) ==
    LET at == { k \in 1..(Len(line) - 1) :
                  line[k] = "[in_progress]" /\ line[k + 1] = "\\" }
    IN  IF at = {} THEN [found |-> FALSE, group |-> <<>>]
        ELSE LET k == CHOOSE j \in at : \A h \in at : j <= h
             IN  [found |-> TRUE, group |-> SkipS(SubSeq(line, k + 2, Len(line)))]

\* the loop over the lines of one resultDisplay: the first match is
\* returned, null when no line matches
RECURSIVE ScanLines(_)
ScanLines(lines) ==
    IF lines = <<>> THEN Null
    ELSE IF match(Head(lines)).found THEN Description(match(Head(lines)).group)
    ELSE ScanLines(Tail(lines))

\* the loop over the tools of one group: the first 'Write Todos' tool whose
\* resultDisplay is a string decides
RECURSIVE ScanTools(_)
ScanTools(tools) ==
    IF tools = <<>> THEN [decided |-> FALSE, value |-> Null]
    ELSE IF Head(tools).name # "Write Todos" \/ ~Head(tools).isString
    THEN ScanTools(Tail(tools))
    ELSE [decided |-> TRUE, value |-> ScanLines(split(Head(tools).resultDisplay))]

\* the loop over the history, from its last item down
RECURSIVE ScanHistory(_, _)
ScanHistory(history, i) ==
    IF i = 0 THEN Null
    ELSE IF history[i].type # "tool_group" THEN ScanHistory(history, i - 1)
    ELSE IF ScanTools(history[i].tools).decided THEN ScanTools(history[i].tools).value
    ELSE ScanHistory(history, i - 1)

\* the callback of useMemo
inProgressTodoDescription(hasHistory, history) ==
    IF ~hasHistory THEN Null ELSE ScanHistory(history, Len(history))

\* what the component returns: nothing for a description that is null or
\* empty, else the box with the text
Frame(description) ==
    IF description.isNull \/ description.text = <<>> THEN <<>>
    ELSE <<"In Progress ToDo: ">> \o description.text

\* one TodoDisplay: mounted is FALSE when there is none; history is what
\* useUIState returns (hasHistory is FALSE for an undefined history)
Display(mounted, hasHistory, history) ==
    [mounted |-> mounted, hasHistory |-> hasHistory, history |-> history,
     rendered |-> FALSE, frame |-> <<>>]

NoTodo == Display(FALSE, FALSE, <<>>)

\* render(<TodoDisplay />)
TodoRender ==
    /\ todo.mounted
    /\ ~todo.rendered
    /\ todo' = [todo EXCEPT
                  !.rendered = TRUE,
                  !.frame = Frame(inProgressTodoDescription(todo.hasHistory,
                                                            todo.history))]
    /\ UNCHANGED <<hooksConfig, call, input, queue, runs, results, uncaught, budget,
                   world, verdict, previous, sse>>

(***************************************************************************)
(* Specifications.                                                         *)
(***************************************************************************)
InitWith(configs, w, b) ==
    /\ hooksConfig \in configs
    /\ world = w
    /\ budget = b
    /\ call = "idle"
    /\ input = NoInput
    /\ queue = <<>>
    /\ runs = <<>>
    /\ results = <<>>
    /\ uncaught = FALSE
    /\ verdict = NoVerdict
    /\ previous = NoPrevious
    /\ sse = NoStream
    /\ todo = NoTodo

Init == InitWith(RunnerConfigs, RunnerWorld, MaxData)

Next ==
    \/ \E inp \in world.inputs : Dispatch(inp)
    \/ Return
    \/ Aggregate
    \/ \E i \in 1..Len(runs) : SpawnErrorEvent(i)
    \/ \E i \in 1..Len(runs) : StdinErrorEvent(i)
    \/ \E i \in 1..Len(runs) : \E chunk \in world.stdoutChunks : StdoutData(i, chunk)
    \/ \E i \in 1..Len(runs) : \E chunk \in world.stderrChunks : StderrData(i, chunk)
    \/ \E i \in 1..Len(runs) : TimerFire(i)
    \/ \E i \in 1..Len(runs) : \E code \in world.codes : ShellExit(i, code)
    \/ \E i \in 1..Len(runs) : TermDeath(i)
    \/ \E i \in 1..Len(runs) : BgExit(i)
    \/ \E i \in 1..Len(runs) : Close(i)

Spec == Init /\ [][Next]_vars

InitDispatch == InitWith(DispatchConfigs, DispatchWorld, MaxDispatchData)

DispatchSpec == InitDispatch /\ [][Next]_vars

\* two calls in a row on one manager, one command each
ReplayWorld ==
    World({ HookInput("PreToolUse", TRUE, Bash), HookInput("PreToolUse", TRUE, Read) },
          { e \in Fates : e.bg # "piped" }, {0, BLOCKING_EXIT_CODE},
          { <<"{", "block:true", ",", "message:X", "}">> }, StderrChunks)

InitReplay == InitWith(RunnerConfigs, ReplayWorld, MaxReplayData)

ReplayNext == Next \/ Again

ReplaySpec == InitReplay /\ [][ReplayNext]_vars

\* hooks whose response has a `block` member that is no boolean
BlockValueWorld ==
    World({ HookInput("PreToolUse", TRUE, Bash) },
          { e \in Fates : e.bg # "piped" }, {0, BLOCKING_EXIT_CODE},
          { <<"{">>, <<"block:true", "}">>, <<"block:null", "}">>,
            <<"block:'false'", "}">>, <<"block:1", "}">> }, StderrChunks)

InitBlockValue == InitWith(RunnerConfigs, BlockValueWorld, MaxData)

BlockValueSpec == InitBlockValue /\ [][Next]_vars

\* the matcher on its own: one rule, every pattern, every tool name
InitMatch == InitWith(MatchConfigs, MatchWorld, MaxDispatchData)

MatchSpec == InitMatch /\ [][Next]_vars

(***************************************************************************)
(* The verdict functions on their own: every list of up to MaxResults      *)
(* outcomes a call can return.                                             *)
(***************************************************************************)
VerdictStdouts ==
    { <<>>, <<"x">>, <<"{", "message:X", "}">>, <<"{", "block:true", "}">>,
      <<"{", "block:false", "}">>,
      <<"{", "block:true", ",", "message:X", "}">> }

VerdictOutcomes ==
    { closeResult(out, err, timedOut, 5000, code) :
        out \in VerdictStdouts, err \in {<<>>, <<"e">>},
        timedOut \in BOOLEAN, code \in {0, BLOCKING_EXIT_CODE} }
    \cup { StdinFailure, SpawnFailure("spawn ENOENT") }

VerdictInit ==
    /\ hooksConfig \in RunnerConfigs
    /\ world = DispatchWorld
    /\ budget = 0
    /\ call = "returned"
    /\ input = NoInput
    /\ queue = <<>>
    /\ runs = <<>>
    /\ results \in UNION { [1..n -> VerdictOutcomes] : n \in 0..MaxResults }
    /\ uncaught = FALSE
    /\ verdict = NoVerdict
    /\ previous = NoPrevious
    /\ sse = NoStream
    /\ todo = NoTodo

VerdictNext == Aggregate

VerdictSpec == VerdictInit /\ [][VerdictNext]_vars

\* The steps the program and the event loop take by themselves are taken
\* when they stay possible; what a child writes and when (or whether) it
\* exits is left to the child.
FairSpec ==
    /\ Spec
    /\ WF_vars(Return)
    /\ WF_vars(\E i \in 1..Len(runs) : SpawnErrorEvent(i))
    /\ WF_vars(\E i \in 1..Len(runs) : TimerFire(i))
    /\ WF_vars(\E i \in 1..Len(runs) : TermDeath(i))
    /\ WF_vars(\E i \in 1..Len(runs) : Close(i))

\* no hook manager at work
NoManager ==
    /\ hooksConfig = HooksConfig(FALSE, {}, NoRules)
    /\ world = DispatchWorld
    /\ budget = 0
    /\ call = "idle"
    /\ input = NoInput
    /\ queue = <<>>
    /\ runs = <<>>
    /\ results = <<>>
    /\ uncaught = FALSE
    /\ verdict = NoVerdict
    /\ previous = NoPrevious

\* one call of processStreamResponse on every body, read in every way
SseInit ==
    /\ NoManager
    /\ sse \in { Stream("start", TRUE, body) : body \in SseBodies }
               \cup { Stream("start", FALSE, <<>>) }
    /\ todo = NoTodo

SseNext ==
    \/ SseStart
    \/ \E n \in 1..Len(sse.body) : SseRead(n)
    \/ SseReadError
    \/ SseLine
    \/ SseDone

SseSpec == SseInit /\ [][SseNext]_vars

\* one TodoDisplay on every history of up to MaxHistory items
TodoInit ==
    /\ NoManager
    /\ sse = NoStream
    /\ todo \in { Display(TRUE, TRUE, history) :
                     history \in UNION { [1..n -> HistoryItems] : n \in 0..MaxHistory } }
                \cup { Display(TRUE, FALSE, <<>>) }

TodoNext == TodoRender

TodoSpec == TodoInit /\ [][TodoNext]_vars

(***************************************************************************)
(* Properties.                                                             *)
(***************************************************************************)
RunIds == 1..Len(runs)

\* the run's promise was fulfilled by the 'close' handler
ClosedRun(i) == runs[i].promise.status = "fulfilled" /\ runs[i].promise.via = "close"

Outcome(i) == runs[i].promise.value

\* the exit code the outcome reports: 1 for a timed-out run and for a child
\* without exit code, the child's exit code otherwise
EffectiveExit(i) ==
    IF runs[i].timedOut \/ runs[i].child.code = ExitNull THEN 1
    ELSE runs[i].child.code

\* stdout as a whole is a JSON object with a `block` member
HasExplicitBlock(out) ==
    /\ JSONparse(out).ok
    /\ JSONparse(out).value.kind = "object"
    /\ JSONparse(out).value.hasBlock

\* stdout is empty, whitespace only, or not JSON
Unstructured(out) == trim(out) = <<>> \/ ~JSONparse(out).ok

\* C1: for a run ended by 'close', an explicit `block` member of the JSON
\* object on stdout is the outcome's shouldBlock whatever the exit code
\* (exit 2 with {"block":false} allows, exit 0 with {"block":true} blocks);
\* shouldBlock is true iff the flag is true, or there is no flag and the
\* effective exit code is 2.
C1_ExplicitBlockWins ==
    \A i \in RunIds : ClosedRun(i) =>
        LET out == runs[i].stdout
            o == Outcome(i)
        IN  /\ HasExplicitBlock(out) => o.shouldBlock = JSONparse(out).value.block
            /\ (out = <<"{", "block:false", "}">> /\ runs[i].child.code = 2)
                  => o.shouldBlock = JSFalse
            /\ (out = <<"{", "block:true", "}">> /\ runs[i].child.code = 0)
                  => o.shouldBlock = JSTrue
            /\ o.shouldBlock = JSTrue <=>
                  \/ HasExplicitBlock(out) /\ JSONparse(out).value.block = JSTrue
                  \/ ~HasExplicitBlock(out) /\ EffectiveExit(i) = 2

C1_Witness ==
    \E i \in RunIds :
        /\ ClosedRun(i)
        /\ runs[i].stdout = <<"{", "block:false", "}">>
        /\ runs[i].child.code = 2
        /\ ~runs[i].timedOut
        /\ Outcome(i).exitCode = 2
        /\ Outcome(i).shouldBlock = JSFalse

\* C2: a run that completes (the timer did not fire) with stdout empty,
\* whitespace only or not JSON has no response attached, reports the
\* child's exit code and blocks exactly on exit code 2.
C2_ExitCodeFallback ==
    \A i \in RunIds :
        (ClosedRun(i) /\ ~runs[i].timedOut /\ Unstructured(runs[i].stdout)) =>
            LET o == Outcome(i)
            IN  /\ o.response = NoResponse
                /\ runs[i].child.code # ExitNull => o.exitCode = runs[i].child.code
                /\ o.shouldBlock = JSBool(o.exitCode = 2)
                /\ runs[i].child.code \in {0, 1} => o.shouldBlock = JSFalse
                /\ runs[i].child.code = 2 => o.shouldBlock = JSTrue

C2_Witness ==
    \E i \in RunIds :
        /\ ClosedRun(i)
        /\ ~runs[i].timedOut
        /\ runs[i].stdout = <<"x">>
        /\ runs[i].child.code = 1
        /\ Outcome(i).exitCode = 1
        /\ Outcome(i).shouldBlock = JSFalse

\* C3: when stdout is JSON without a `block` member, shouldBlock follows the
\* exit code and the parsed response (with its message) is attached.
C3_ResponseAttached ==
    \A i \in RunIds :
        (ClosedRun(i) /\ trim(runs[i].stdout) # <<>> /\ JSONparse(runs[i].stdout).ok
            /\ ~HasExplicitBlock(runs[i].stdout)) =>
            LET o == Outcome(i)
            IN  /\ o.shouldBlock = JSBool(o.exitCode = 2)
                /\ o.exitCode = EffectiveExit(i)
                /\ o.response = JSONparse(runs[i].stdout).value
                /\ runs[i].stdout = <<"{", "message:X", "}">> =>
                      (o.response.hasMessage /\ o.response.message = <<"X">>)

C3_Witness ==
    \E i \in RunIds :
        /\ ClosedRun(i)
        /\ runs[i].stdout = <<"{", "message:X", "}">>
        /\ runs[i].child.code = 2
        /\ Outcome(i).shouldBlock = JSTrue
        /\ Outcome(i).response.message = <<"X">>

\* C4 as stated: the outcome of a run whose timer fired has exitCode 1 and
\* shouldBlock false.
C4_TimedOutNeverBlocks ==
    \A i \in RunIds :
        (runs[i].timedOut /\ runs[i].promise.status = "fulfilled") =>
            /\ Outcome(i).exitCode = 1
            /\ Outcome(i).shouldBlock = JSFalse

\* C4 amended: the outcome of a run whose timer fired has exitCode 1, and
\* shouldBlock false unless stdout is a JSON object with a `block` member,
\* whose value is then shouldBlock.
C4_TimedOutExitOne ==
    \A i \in RunIds :
        (runs[i].timedOut /\ runs[i].promise.status = "fulfilled") =>
            /\ Outcome(i).exitCode = 1
            /\ Outcome(i).shouldBlock =
                  IF ClosedRun(i) /\ HasExplicitBlock(runs[i].stdout)
                  THEN JSONparse(runs[i].stdout).value.block
                  ELSE JSFalse

C4_Witness ==
    \E i \in RunIds :
        /\ runs[i].timedOut
        /\ ClosedRun(i)
        /\ runs[i].child.code = 2
        /\ Outcome(i).exitCode = 1
        /\ Outcome(i).shouldBlock = JSFalse

\* C5: the stderr of the outcome of a timed-out run (here: one ended by
\* 'close') is the timeout notice, which names the time limit, followed by
\* the captured stderr.
C5_TimeoutNotice ==
    \A i \in RunIds :
        (runs[i].timedOut /\ ClosedRun(i)) =>
            Outcome(i).stderr = TimeoutNotice(Timeout(runs[i].hook)) \o runs[i].stderr

\* C6: a call of executeHooks that waits for its executions returns (unless
\* the process is ended by an uncaught exception first).
C6_AlwaysReturns == (call = "waiting") ~> (call = "returned" \/ uncaught)

\* the processes of run i that are alive
Alive(i) == runs[i].child.shell = "running" \/ runs[i].child.bg # "none"

\* C7: once executeHooks has returned, no process of a hook that timed out
\* and was closed is alive.
C7_TimedOutProcessGone ==
    call = "returned" =>
        \A i \in RunIds : (runs[i].timedOut /\ ClosedRun(i)) => ~Alive(i)

\* C8: a settled promise keeps its state and its outcome whatever event
\* comes later.
C8_SettledOnce ==
    [][\A i \in RunIds :
          runs[i].promise.status # "pending" => runs'[i].promise = runs[i].promise]_vars

\* a 'close' handler ran on a promise the 'error' handler had settled
C8_Witness ==
    \E i \in RunIds :
        /\ runs[i].promise.status = "fulfilled"
        /\ runs[i].promise.via = "error"
        /\ runs[i].child.shell = "closed"
        /\ Outcome(i) = SpawnFailure("spawn ENOENT")

\* C9: executeHooks returns one outcome per queued execution; a rejected
\* execution is reported as exitCode 1, empty stdout, shouldBlock false and
\* the fault as stderr, the others by their own outcome.
C9_FaultBecomesOutcome ==
    call = "returned" =>
        /\ Len(results) = Len(runs)
        /\ \A i \in RunIds :
              /\ runs[i].promise.status = "rejected" =>
                    /\ results[i].exitCode = 1
                    /\ results[i].stdout = <<>>
                    /\ results[i].shouldBlock = JSFalse
                    /\ results[i].stderr = runs[i].promise.reason
                    /\ results[i].stderr # <<>>
              /\ runs[i].promise.status = "fulfilled" =>
                    results[i] = Outcome(i)

C9_Witness ==
    /\ call = "returned"
    /\ \E i, j \in RunIds :
          /\ runs[i].promise.status = "rejected"
          /\ results[i].exitCode = 1
          /\ runs[j].promise.via = "close"
          /\ results[j].shouldBlock = JSTrue

\* C10: the promise of executeHook is never rejected and no failure of a run
\* is thrown outside it.
C10_NeverRaises ==
    /\ ~uncaught
    /\ \A i \in RunIds : runs[i].promise.status # "rejected"


\* C11: executeHooks has returned only when every queued execution has
\* settled, and the returned list holds what each one settled with.
C11_ReturnsAfterAllSettled ==
    call = "returned" =>
        /\ Len(results) = Len(runs)
        /\ \A i \in RunIds :
              /\ runs[i].promise.status # "pending"
              /\ runs[i].promise.via \in {"close", "error", "stdin", "throw"}

\* two executions that settled on different paths, the second one after a
\* timeout
C11_Witness ==
    /\ call = "returned"
    /\ Len(runs) = 2
    /\ runs[1].promise.via = "error"
    /\ runs[2].timedOut
    /\ runs[2].promise.via = "close"
    /\ results[2].exitCode = 1

\* C12: what happens to one command of a call never takes the delivery of
\* its outcome away from another command: a step that leaves a run
\* untouched leaves its 'close' handler able to run.
C12_NoInterference ==
    [][\A j \in RunIds :
          (CanClose(j) /\ j \in DOMAIN runs' /\ runs'[j] = runs[j]) => CanClose(j)']_vars

\* the rule list the dispatched event has in the configuration
RulesOfCall ==
    IF hooksConfig.present /\ input.hookType \in hooksConfig.listed
    THEN hooksConfig.rules[input.hookType] ELSE <<>>

\* the places <<rule, command>> of the configuration the call has to run:
\* the rule's pattern is '*' or matches the tool name of the input
PlacesOfCall ==
    { p \in (1..Len(RulesOfCall)) \X (1..2) :
        /\ p[2] <= Len(RulesOfCall[p[1]].hooks)
        /\ matchesPattern(RulesOfCall[p[1]].matcher,
                          IF input.hasToolName THEN input.toolName ELSE Star) }

CommandAt(p) == RulesOfCall[p[1]].hooks[p[2]].command

\* C13: the returned list has one outcome per command of the matching rules
\* of the dispatched event, none missing and none twice.
C13_OneOutcomePerCommand ==
    call = "returned" =>
        /\ Len(results) = Cardinality(PlacesOfCall)
        /\ Len(runs) = Len(results)
        /\ \A p \in PlacesOfCall :
              \E i \in RunIds : runs[i].hook.command = CommandAt(p)
        /\ \A i, j \in RunIds :
              runs[i].hook.command = runs[j].hook.command => i = j
        /\ \A i \in RunIds : results[i] = Settled(runs[i].promise)

\* a rule with two commands gave two outcomes
C13_Witness ==
    /\ call = "returned"
    /\ Len(RulesOfCall) = 1
    /\ Len(results) = 2
    /\ runs[1].hook.command = "c1"
    /\ runs[2].hook.command = "c2"
    /\ results[1] # results[2]

\* C14: without configuration, without rule list for the event, or with an
\* empty one, the call returns the empty list; no executor runs, so no
\* process is spawned and no timer started.
C14_NothingToRun ==
    (call # "idle" /\ (\/ ~hooksConfig.present
                       \/ input.hookType \notin hooksConfig.listed
                       \/ hooksConfig.rules[input.hookType] = <<>>)) =>
        /\ call = "returned"
        /\ results = <<>>
        /\ runs = <<>>
        /\ queue = <<>>

\* the event is listed with an empty rule list
C14_Witness ==
    /\ call = "returned"
    /\ hooksConfig.present
    /\ input.hookType = "PostToolUse"
    /\ input.hasToolName
    /\ input.toolName = Read
    /\ "PostToolUse" \in hooksConfig.listed
    /\ hooksConfig.rules["PostToolUse"] = <<>>
    /\ hooksConfig.rules["PreToolUse"] # <<>>
    /\ results = <<>>
    /\ runs = <<>>

\* C15: the executions of a call are exactly the commands of the rules of
\* the dispatched event whose pattern matches the tool name; with a '*' rule
\* (c1), a 'Bash' rule (c3) and a rule of another event (c4), tool Read runs
\* c1 only and tool Bash runs c1 and c3; a block comes from an execution.
C15_OnlyMatchingCommands ==
    call # "idle" =>
        LET spawned == { runs[i].hook.command : i \in RunIds }
        IN  /\ spawned = { CommandAt(p) : p \in PlacesOfCall }
            /\ Len(runs) = Cardinality(spawned)
            /\ (Len(hooksConfig.rules["PreToolUse"]) = 3 /\ input.hookType = "PreToolUse") =>
                  /\ (input.hasToolName /\ input.toolName = Read) => spawned = {"c1"}
                  /\ (input.hasToolName /\ input.toolName = Bash) => spawned = {"c1", "c3"}
            /\ (Len(hooksConfig.rules["PreToolUse"]) = 3 /\ input.hookType = "PostToolUse") =>
                  spawned = {"c4"}
            /\ (verdict.computed /\ verdict.blocked) =>
                  \E i \in RunIds : Settled(runs[i].promise).shouldBlock = JSTrue

\* tool Read with the '*' rule and the 'Bash' rule: one execution, no block
C15_Witness ==
    /\ verdict.computed
    /\ ~verdict.blocked
    /\ Len(hooksConfig.rules["PreToolUse"]) = 3
    /\ input.hookType = "PreToolUse"
    /\ input.hasToolName
    /\ input.toolName = Read
    /\ Len(runs) = 1
    /\ runs[1].hook.command = "c1"
    /\ runs[1].promise.via = "close"

\* the child of run i could not be started
NotStarted(i) == runs[i].child.shell = "none" \/ runs[i].child.code = ENOENT

C17_StdinFailureResolves ==
    [][\A i \in RunIds :
          (runs[i].pending = "stdinError" /\ i \in DOMAIN runs'
              /\ runs'[i].pending # "stdinError") =>
              /\ runs'[i].promise.status = "fulfilled"
              /\ runs'[i].promise.value.exitCode = 1
              /\ runs'[i].promise.value.stdout = <<>>
              /\ runs'[i].promise.value.shouldBlock = JSFalse
              /\ runs'[i].promise.value.stderr # <<>>]_vars

\* C18: shouldBlockOperation is true iff some outcome of the list has
\* shouldBlock true, and false for the empty list.
C18_BlockedIffSomeBlocks ==
    verdict.computed =>
        /\ verdict.blocked <=> (\E k \in 1..Len(results) : results[k].shouldBlock = JSTrue)
        /\ results = <<>> => ~verdict.blocked

C18_Witness ==
    /\ verdict.computed
    /\ verdict.blocked
    /\ Len(results) = 2
    /\ results[1].shouldBlock = JSFalse
    /\ results[2].shouldBlock = JSTrue

\* the text the claim picks for one blocking outcome: the first of
\* response.message, stderr and stdout that is there, else the fixed string
PickedText(r, text) ==
    LET message == IF r.response.hasMessage THEN r.response.message ELSE <<>>
        available == SelectSeq(<<message, r.stderr, r.stdout>>, LAMBDA t : t # <<>>)
    IN  text = IF available = <<>>
               THEN <<"Hook blocked operation (no message provided)">>
               ELSE Head(available)

\* the message of the first k outcomes of the list
RECURSIVE MessageUpTo(_, _)
MessageUpTo(list, k) ==
    IF k = 0 THEN <<>>
    ELSE LET before == MessageUpTo(list, k - 1)
             text == CHOOSE t \in {list[k].response.message, list[k].stderr, list[k].stdout,
                                   <<"Hook blocked operation (no message provided)">>} :
                         PickedText(list[k], t)
         IN  IF list[k].shouldBlock # JSTrue THEN before
             ELSE IF \E h \in 1..(k - 1) : list[h].shouldBlock = JSTrue
             THEN before \o <<"\n">> \o text
             ELSE text

\* C19: getBlockingMessage joins, with a newline and in the order of the
\* list, one text per blocking outcome: response.message, else stderr, else
\* stdout, else the fixed string; the other outcomes add nothing.
C19_MessageOfBlockingOutcomes ==
    verdict.computed => verdict.message = MessageUpTo(results, Len(results))

\* the message wins over stderr in the first text, the second is the fixed
\* string
C19_Witness ==
    /\ verdict.computed
    /\ Len(results) = 2
    /\ results[1].shouldBlock = JSTrue
    /\ results[1].response.hasMessage
    /\ results[1].stderr = <<"e">>
    /\ results[2].shouldBlock = JSTrue
    /\ results[2].stdout = <<>>
    /\ results[2].stderr = <<>>
    /\ verdict.message = <<"X", "\n", "Hook blocked operation (no message provided)">>

\* C20: the message is empty exactly when the verdict is not to block.
C20_EmptyMessageIffAllowed ==
    verdict.computed => ((verdict.message = <<>>) <=> ~verdict.blocked)

\* a block whose only text is the fixed string
C20_Witness ==
    /\ verdict.computed
    /\ verdict.blocked
    /\ Len(results) = 1
    /\ results[1].stdout = <<>>
    /\ results[1].stderr = <<>>
    /\ verdict.message # <<>>


\* the stdout of a hook that prints {"block":true,"message":"X"}
BlockX == <<"{", "block:true", ",", "message:X", "}">>

\* text is one of the lines of message
HasLine(message, text) ==
    \E k \in 1..Len(message) :
        /\ k + Len(text) - 1 <= Len(message)
        /\ SubSeq(message, k, k + Len(text) - 1) = text
        /\ k = 1 \/ message[k - 1] = "\n"
        /\ k + Len(text) - 1 = Len(message) \/ message[k + Len(text)] = "\n"

\* C21: a hook that exits 0 and prints {"block":true,"message":"X"} has an
\* outcome with shouldBlock true, and the message of the list the call
\* returns has the line X.
C21_StructuredBlock ==
    \A i \in RunIds :
        (ClosedRun(i) /\ runs[i].child.code = 0 /\ runs[i].child.out = << BlockX >>) =>
            /\ Outcome(i).shouldBlock = JSTrue
            /\ Outcome(i).response.message = <<"X">>
            /\ ~runs[i].timedOut => Outcome(i).exitCode = 0
            /\ call = "returned" => results[i].shouldBlock = JSTrue
            /\ verdict.computed =>
                  (verdict.blocked /\ HasLine(verdict.message, <<"X">>))

\* the hook beside a command that could not be started
C21_Witness ==
    /\ verdict.computed
    /\ Len(results) = 2
    /\ ClosedRun(1)
    /\ runs[1].child.code = 0
    /\ ~runs[1].timedOut
    /\ runs[1].child.out = << BlockX >>
    /\ results[1].exitCode = 0
    /\ results[2].shouldBlock = JSFalse
    /\ verdict.message = <<"X">>

\* the text of the message that belongs to outcome r
TextOf(r) ==
    CHOOSE t \in {r.response.message, r.stderr, r.stdout,
                  <<"Hook blocked operation (no message provided)">>} : PickedText(r, t)

\* C22: when one command of a call blocks and another could not be started,
\* the verdict is to block, the message has the blocking command's text as
\* a line, one line per blocking outcome, and nothing of the spawn failure.
C22_BlockBesideSpawnFailure ==
    verdict.computed =>
        \A i, j \in RunIds :
            (results[i].shouldBlock = JSTrue /\ NotStarted(j)) =>
                /\ verdict.blocked
                /\ HasLine(verdict.message, TextOf(results[i]))
                /\ Cardinality({ k \in 1..Len(verdict.message) : verdict.message[k] = "\n" }) + 1
                      = Cardinality({ k \in 1..Len(results) : results[k].shouldBlock = JSTrue })
                /\ \A k \in 1..Len(verdict.message) :
                      verdict.message[k] \notin
                          {"Failed to spawn hook: ", "spawn ENOENT", "Error: ", "spawn"}

C22_Witness ==
    /\ verdict.computed
    /\ Len(runs) = 2
    /\ runs[2].child.code = ENOENT
    /\ results[2].stderr = <<"Failed to spawn hook: ", "spawn ENOENT">>
    /\ ClosedRun(1)
    /\ results[1].exitCode = BLOCKING_EXIT_CODE
    /\ results[1].stdout = <<>>
    /\ results[1].shouldBlock = JSTrue
    /\ verdict.blocked
    /\ verdict.message = <<"e">>

\* the pattern of the only rule of the matcher's configurations
PatternOfCall == hooksConfig.rules["PreToolUse"][1].matcher

\* text occurs somewhere in name
Occurs(text, name) ==
    \E k \in 1..(Len(name) - Len(text) + 1) :
        \A j \in 1..Len(text) : name[k + j - 1] = text[j]

\* C23: the rule with pattern '*' is queued for every tool name; a rule with
\* another pattern that compiles is queued exactly when the regular
\* expression, which is not anchored, finds a match in the tool name.
C23_WildcardAndRegExp ==
    (call # "idle" /\ input.hasToolName) =>
        LET p == PatternOfCall
            n == input.toolName
            queued == queue # <<>>
        IN  /\ p = Star => queued
            /\ p = <<>> => queued
            /\ p = Bash => (queued <=> Occurs(Bash, n))
            /\ p = <<"R", "e">> => (queued <=> Occurs(<<"R", "e">>, n))
            /\ p = <<"a", "d">> => (queued <=> Occurs(<<"a", "d">>, n))
            /\ p = <<"^", "a", "d">> =>
                  (queued <=> (Len(n) >= 2 /\ n[1] = "a" /\ n[2] = "d"))
            /\ p = <<"e", "$">> => (queued <=> (n # <<>> /\ n[Len(n)] = "e"))
            /\ p = <<".">> => (queued <=> n # <<>>)
            /\ p = <<"^", "$">> => (queued <=> n = <<>>)
            /\ p = <<"R", ".", "a", "d">> => (queued <=> Occurs(Read, n))
            /\ p = <<"R", "e", "a", "d", "|", "B", "a", "s", "h">> =>
                  (queued <=> (Occurs(Read, n) \/ Occurs(Bash, n)))

\* a pattern that is only the start of the tool name
C23_Witness ==
    /\ call = "returned"
    /\ PatternOfCall = <<"R", "e">>
    /\ input.hasToolName
    /\ input.toolName = <<"R", "e", "a", "d", "M", "e">>
    /\ Len(results) = 1
    /\ ClosedRun(1)

\* C24: a rule whose pattern is not a regular expression matches no tool
\* name and stops nothing: its commands are not run, the commands of the
\* other matching rules are run and their outcomes returned.
C24_MalformedPatternContained ==
    (call # "idle" /\ \E r \in 1..Len(RulesOfCall) : RulesOfCall[r].matcher = BadPattern) =>
        /\ \A r \in 1..Len(RulesOfCall) : \A h \in 1..Len(RulesOfCall[r].hooks) :
              LET command == RulesOfCall[r].hooks[h].command
                  ran == \E i \in RunIds : runs[i].hook.command = command
              IN  /\ RulesOfCall[r].matcher = BadPattern => ~ran
                  /\ RulesOfCall[r].matcher = Star => ran
                  /\ (input.hasToolName /\ RulesOfCall[r].matcher = input.toolName) => ran
                  /\ (ran /\ call = "returned") =>
                        \E i \in RunIds : /\ runs[i].hook.command = command
                                          /\ results[i] = Settled(runs[i].promise)
        /\ \A i \in RunIds :
              runs[i].promise.status = "rejected" => runs[i].child.shell = "none"

C24_Witness ==
    /\ call = "returned"
    /\ Len(RulesOfCall) = 3
    /\ RulesOfCall[2].matcher = BadPattern
    /\ input.toolName = Bash
    /\ Len(results) = 2
    /\ runs[1].hook.command = "c1"
    /\ runs[2].hook.command = "c3"
    /\ ClosedRun(1)
    /\ ClosedRun(2)

\* C25 as stated: for an input without toolName a rule is queued iff it
\* would be for the empty tool name.
C25_MissingNameAsEmpty ==
    (call # "idle" /\ ~input.hasToolName) =>
        ((queue # <<>>) <=>
            (PatternOfCall = Star
                \/ (RegExpCompiles(PatternOfCall) /\ RegExpTest(PatternOfCall, <<>>))))

\* C25 amended: for an input without toolName the patterns are tested
\* against the one-character name '*': a rule is queued iff its pattern is
\* '*' or its regular expression matches '*' (so '.' is queued and '^$' is
\* not); the empty tool name is tested as it is ('^$' is queued, '.' is not).
C25_MissingNameAsWildcard ==
    /\ (call # "idle" /\ ~input.hasToolName) =>
          /\ (queue # <<>>) <=>
                (PatternOfCall = Star
                    \/ (RegExpCompiles(PatternOfCall) /\ RegExpTest(PatternOfCall, <<"*">>)))
          /\ PatternOfCall = <<".">> => queue # <<>>
          /\ PatternOfCall = <<"^", "$">> => queue = <<>>
          /\ PatternOfCall = Bash => queue = <<>>
    /\ (call # "idle" /\ input.hasToolName /\ input.toolName = <<>>) =>
          /\ PatternOfCall = <<".">> => queue = <<>>
          /\ PatternOfCall = <<"^", "$">> => queue # <<>>

C25_Witness ==
    /\ call = "returned"
    /\ ~input.hasToolName
    /\ PatternOfCall = <<".">>
    /\ Len(results) = 1
    /\ results[1] = Settled(runs[1].promise)

\* where the invocation of run i is
Phase(i) ==
    IF runs[i].promise.status = "pending" THEN "Running"
    ELSE IF runs[i].promise.status = "rejected" THEN "SpawnFailed"
    ELSE CASE runs[i].promise.via = "stdin" -> "StdinWriteFailed"
           [] runs[i].promise.via = "error" ->
                 IF runs[i].child.sig = "denied" THEN "TimedOut" ELSE "SpawnFailed"
           [] OTHER -> IF runs[i].timedOut THEN "TimedOut" ELSE "Completed"

\* C26, the outcome of each state: the child's exit code (1 when it has
\* none) in Completed, whose child has been closed; 1 in TimedOut, whose
\* timer fired, in SpawnFailed, whose child never ran, and in
\* StdinWriteFailed, whose child was spawned.
C26_PhaseOutcome ==
    \A i \in RunIds :
        LET exitCode == Settled(runs[i].promise).exitCode
        IN  /\ Phase(i) = "Completed" =>
                  /\ runs[i].child.shell = "closed"
                  /\ exitCode = IF runs[i].child.code = ExitNull THEN 1
                                ELSE runs[i].child.code
            /\ Phase(i) = "TimedOut" => (exitCode = 1 /\ runs[i].timeoutId = "fired")
            /\ Phase(i) = "SpawnFailed" => (exitCode = 1 /\ NotStarted(i))
            /\ Phase(i) = "StdinWriteFailed" =>
                  (exitCode = 1 /\ runs[i].child.shell # "none")

\* C26: an invocation goes from Running to one of Completed, TimedOut,
\* SpawnFailed and StdinWriteFailed and stays there; the outcome reports the
\* child's exit code in Completed only (1 for a child without exit code)
\* and 1 in the other three.
C26_StateMachine ==
    /\ []C26_PhaseOutcome
    /\ [][\A i \in RunIds :
            /\ i \in DOMAIN runs'
            /\ Phase(i) # "Running" => Phase(i)' = Phase(i)
            /\ Phase(i)' \in {"Running", "Completed", "TimedOut", "SpawnFailed",
                              "StdinWriteFailed"}]_vars

\* StdinWriteFailed: the child exits with code 2 afterwards, the outcome
\* keeps exit code 1
C26_Witness ==
    \E i \in RunIds :
        /\ Phase(i) = "StdinWriteFailed"
        /\ runs[i].child.shell = "exited"
        /\ runs[i].child.code = BLOCKING_EXIT_CODE
        /\ Outcome(i).exitCode = 1
        /\ Outcome(i).shouldBlock = JSFalse

\* the chunks of a stream, decoded and put together in the order they came
RECURSIVE Captured(_)
Captured(chunks) ==
    IF chunks = <<>> THEN <<>> ELSE toString(Head(chunks)) \o Captured(Tail(chunks))

\* what a closed run reports comes from its own child and its own timer
C27_OwnOutcome ==
    \A i \in RunIds :
        /\ ClosedRun(i) =>
              /\ Outcome(i).stdout = Captured(runs[i].child.out)
              /\ Outcome(i).exitCode = EffectiveExit(i)
              /\ Outcome(i).stderr \in
                    { Captured(runs[i].child.err),
                      TimeoutNotice(Timeout(runs[i].hook)) \o Captured(runs[i].child.err) }
        /\ runs[i].child.sig # "none" => runs[i].timedOut

\* C27: the executions share nothing: a step changes the state of one
\* execution at most; stdout, stderr, exit code and timed-out flag of an
\* outcome are those of the run's own child and timer, and a child is
\* signalled only by the timer of its own run.
C27_NothingShared ==
    /\ []C27_OwnOutcome
    /\ [][\A i, j \in RunIds :
            (i # j /\ runs'[i] # runs[i]) => runs'[j] = runs[j]]_vars

\* two closed runs of one call, one of them timed out, with their own output
C27_Witness ==
    /\ Len(runs) = 2
    /\ ClosedRun(1)
    /\ ClosedRun(2)
    /\ ~runs[1].timedOut
    /\ runs[2].timedOut
    /\ runs[2].child.sig = "killed"
    /\ Outcome(1).stdout = BlockX
    /\ Outcome(2).stdout = <<>>
    /\ Outcome(1).exitCode = BLOCKING_EXIT_CODE
    /\ Outcome(2).exitCode = 1

\* C28: no step changes the hooks configuration, and the input of a call
\* stays what the caller passed, during the call and after it.
C28_ConfigurationAndInputKept ==
    [][/\ hooksConfig' = hooksConfig
       /\ (call # "idle" /\ call' # "idle") => input' = input
       /\ previous.done => previous'.input = previous.input]_vars

\* two calls have been made and the rule is still there
C28_Witness ==
    /\ previous.done
    /\ Len(previous.results) = 1
    /\ call = "returned"
    /\ Len(results) = 1
    /\ verdict.computed
    /\ Len(hooksConfig.rules["PreToolUse"]) = 1
    /\ input.toolName = Bash

\* C29: the outcome of a run ended by 'close' has as stdout every chunk of
\* the child's stdout, in the order they came, and as stderr every chunk of
\* its stderr, after the timeout notice if there is one, whether or not a
\* response was parsed from stdout.
C29_OutputCaptured ==
    \A i \in RunIds : ClosedRun(i) =>
        /\ Outcome(i).stdout = Captured(runs[i].child.out)
        /\ \/ Outcome(i).stderr = Captured(runs[i].child.err)
           \/ /\ runs[i].timedOut
              /\ Outcome(i).stderr =
                    TimeoutNotice(Timeout(runs[i].hook)) \o Captured(runs[i].child.err)
        /\ Len(Outcome(i).stdout) >= Len(runs[i].child.out)

\* a response with a flag, parsed from two chunks, beside a chunk of stderr
C29_Witness ==
    \E i \in RunIds :
        /\ ClosedRun(i)
        /\ runs[i].child.out = << <<"{">>, <<"block:true", "}">> >>
        /\ Outcome(i).response.hasBlock
        /\ Outcome(i).stdout = <<"{", "block:true", "}">>

\* what the environment did to run r: whether the child started and was
\* written to, what it wrote, how it ended, whether its timer fired
Behaviour(r) ==
    [started |-> r.child.shell # "none", written |-> r.listening,
     out |-> r.child.out, err |-> r.child.err, code |-> r.child.code,
     sig |-> r.child.sig, timedOut |-> r.timedOut]

\* C30: two calls with the same input on the same configuration whose hooks
\* behave the same return lists of the same length that agree, position by
\* position, in exitCode, shouldBlock and response.
C30_SameCallSameOutcomes ==
    (/\ previous.done
     /\ call = "returned"
     /\ input = previous.input
     /\ Len(runs) = Len(previous.runs)
     /\ \A k \in RunIds : Behaviour(runs[k]) = Behaviour(previous.runs[k])) =>
        /\ Len(results) = Len(previous.results)
        /\ \A k \in 1..Len(results) :
              /\ results[k].exitCode = previous.results[k].exitCode
              /\ results[k].shouldBlock = previous.results[k].shouldBlock
              /\ results[k].response = previous.results[k].response

C30_Witness ==
    /\ previous.done
    /\ call = "returned"
    /\ input = previous.input
    /\ Len(results) = 1
    /\ Behaviour(runs[1]) = Behaviour(previous.runs[1])
    /\ runs[1].child.out = << BlockX >>
    /\ runs[1].child.code = 0
    /\ results[1].shouldBlock = JSTrue
    /\ results[1] = previous.results[1]

\* C33: a run whose child exited by itself, no signal sent to it, reports
\* the child's exit code (1 when it has none) and, without a flag on stdout,
\* the verdict of that code, also when the timer's deadline passed between
\* the exit and the 'close' event.
C33_RealExitCodeKept ==
    \A i \in RunIds :
        (ClosedRun(i) /\ runs[i].child.sig = "none") =>
            LET real == IF runs[i].child.code = ExitNull THEN 1 ELSE runs[i].child.code
            IN  /\ Outcome(i).exitCode = real
                /\ ~HasExplicitBlock(runs[i].stdout) =>
                      Outcome(i).shouldBlock = JSBool(real = BLOCKING_EXIT_CODE)

\* C34: whatever the event of the call, the outcome of a run ended by
\* 'close' has shouldBlock true when the child printed {"block":true} or
\* exited with code 2 (in time, without a flag on stdout), and
\* shouldBlockOperation is true for a list with such an outcome.
C34_NoEventFilter ==
    /\ \A i \in RunIds : ClosedRun(i) =>
          ((\/ HasExplicitBlock(runs[i].stdout)
                  /\ JSONparse(runs[i].stdout).value.block = JSTrue
            \/ ~HasExplicitBlock(runs[i].stdout) /\ EffectiveExit(i) = BLOCKING_EXIT_CODE)
             => Outcome(i).shouldBlock = JSTrue)
    /\ verdict.computed =>
          ((\E k \in 1..Len(results) : results[k].shouldBlock = JSTrue)
             => verdict.blocked)

\* a PostToolUse call whose hook exited with code 2 was reported as blocked
C34_Witness ==
    /\ input.hookType = "PostToolUse"
    /\ verdict.computed
    /\ verdict.blocked
    /\ Len(results) = 1
    /\ ClosedRun(1)
    /\ runs[1].child.code = BLOCKING_EXIT_CODE
    /\ runs[1].stdout = <<>>
    /\ results[1].shouldBlock = JSTrue

\* place p of the configuration comes before place q
PlaceBefore(p, q) == p[1] < q[1] \/ (p[1] = q[1] /\ p[2] < q[2])

\* C35: the k-th outcome of the returned list is that of the k-th queued
\* command, the commands being queued by rule and, within a rule, by
\* position, in whatever order the runs were settled; the lines of the
\* combined message are in the order of the list.
C35_ConfigurationOrder ==
    call = "returned" =>
        /\ Len(results) = Len(runs)
        /\ \A k \in RunIds :
              /\ results[k] = Settled(runs[k].promise)
              /\ runs[k].hook = queue[k]
        /\ \A k, l \in RunIds : k < l =>
              \E p, q \in PlacesOfCall :
                  /\ CommandAt(p) = runs[k].hook.command
                  /\ CommandAt(q) = runs[l].hook.command
                  /\ PlaceBefore(p, q)
        /\ verdict.computed => verdict.message = MessageUpTo(results, Len(results))

\* the second run was settled in its executor, the first by a later 'close'
\* event: the list has the first run's outcome first
C35_Witness ==
    /\ call = "returned"
    /\ verdict.computed
    /\ Len(results) = 2
    /\ runs[1].promise.via = "close"
    /\ runs[2].promise.via = "stdin"
    /\ results[1] = runs[1].promise.value
    /\ results[1].shouldBlock = JSTrue
    /\ results[2] = StdinFailure
    /\ verdict.message = <<"X">>

\* C36: the child of a run that has delivered its outcome has exited, or
\* was never started, or has been sent the termination signal.
C36_ChildEndedOrSignalled ==
    \A i \in RunIds :
        runs[i].promise.status = "fulfilled" =>
            \/ runs[i].child.shell # "running"
            \/ runs[i].child.sig \in {"dying", "ignored", "killed"}

\* C37: the timer of a settled run is not armed, and no step marks a
\* settled run as timed out or signals its child.
C37_TimerCancelledBySettlement ==
    /\ [](\A i \in RunIds :
            runs[i].promise.status # "pending" => runs[i].timeoutId # "armed")
    /\ [][\A i \in RunIds :
            (runs[i].promise.status # "pending" /\ i \in DOMAIN runs') =>
                /\ runs'[i].timedOut = runs[i].timedOut
                /\ runs'[i].timeoutId = runs[i].timeoutId
                /\ runs'[i].child.sig = runs[i].child.sig]_vars

\* the write failed in the executor; the child, left running, exited later
\* and no timer fired
C37_Witness ==
    \E i \in RunIds :
        /\ runs[i].promise.via = "stdin"
        /\ runs[i].timeoutId = "cleared"
        /\ runs[i].child.shell = "exited"
        /\ ~runs[i].timedOut
        /\ call = "returned"

\* C38: shouldBlock of every returned outcome is true or false, and
\* shouldBlockOperation reports a block only for a list with an outcome
\* whose response has `block: true` or whose exit code is 2.
C38_BooleanVerdict ==
    /\ \A k \in 1..Len(results) : results[k].shouldBlock \in {JSTrue, JSFalse}
    /\ (verdict.computed /\ verdict.blocked) =>
          \E k \in 1..Len(results) :
              \/ results[k].response.hasBlock /\ results[k].response.block = JSTrue
              \/ results[k].exitCode = BLOCKING_EXIT_CODE

\* a `data: ` line that is neither blank nor the end marker
IsEventLine(line) ==
    /\ trim(line) # <<>>
    /\ trim(line) # LineDone
    /\ startsWith(line, DataPrefix)

EventOf(line) == JSONparseEvent(SubSeq(line, 3, Len(line)))

\* a `data: ` line whose payload is no JSON
Unparsable(line) == IsEventLine(line) /\ ~EventOf(line).ok

\* a `data: ` line with a well-formed chunk that has content
WellFormed(line) ==
    /\ IsEventLine(line)
    /\ EventOf(line).ok
    /\ EventOf(line).value.kind = "object"
    /\ EventOf(line).value.error = <<>>
    /\ EventOf(line).value.content # <<>>

\* the lines of a body that end with a line feed
CompleteLines(body) ==
    LET pieces == split(toString(body))
    IN  SubSeq(pieces, 1, Len(pieces) - 1)

\* the texts of the well-formed chunks among the lines, each added to the
\* text so far
RECURSIVE TextsOf(_, _)
TextsOf(lines, text) ==
    IF lines = <<>> THEN <<>>
    ELSE IF WellFormed(Head(lines))
    THEN <<text \o EventOf(Head(lines)).value.content>>
         \o TextsOf(Tail(lines), text \o EventOf(Head(lines)).value.content)
    ELSE TextsOf(Tail(lines), text)

\* the texts of the responses yielded for a chunk
YieldedTexts ==
    LET chunks == SelectSeq(sse.yielded, LAMBDA r : r.finishReason = "none")
    IN  [k \in 1..Len(chunks) |-> chunks[k].text]

\* C31: the round of the loop that meets a `data:` line it cannot parse logs
\* the failure and goes on to the next line or the next read, nothing
\* yielded and nothing raised; a round that meets a well-formed chunk yields
\* its text after the text so far, whatever was logged before; and a call
\* that has returned yielded the text of every well-formed chunk of the
\* lines of the body.
C31_ParseFailureSkipped ==
    /\ [](sse.pc = "done" => YieldedTexts = TextsOf(CompleteLines(sse.body), <<>>))
    /\ [][(sse.pc = "lines" /\ Unparsable(Head(sse.lines))) =>
            /\ sse'.log = Append(sse.log, <<"SyntaxError">>)
            /\ sse'.pc \in {"lines", "read"}
            /\ sse'.yielded = sse.yielded
            /\ sse'.accumulatedText = sse.accumulatedText]_vars
    /\ [][(sse.pc = "lines" /\ WellFormed(Head(sse.lines))) =>
            /\ Len(sse'.yielded) = Len(sse.yielded) + 1
            /\ sse'.yielded[Len(sse'.yielded)].text =
                  sse.accumulatedText \o EventOf(Head(sse.lines)).value.content]_vars

\* a line that is no JSON between two chunks: both texts were yielded
C31_Witness ==
    /\ sse.pc = "done"
    /\ sse.body = Body(<<LineA, LineBad, LineUsage>>, TRUE)
    /\ sse.log = << <<"SyntaxError">> >>
    /\ YieldedTexts = << <<"a">>, <<"a", "b">> >>

\* C39: once an event with an `error` field has been read, the generator
\* has raised that error and has yielded nothing since.
C39_ErrorRaised ==
    \A k \in 1..Len(sse.log) :
        (sse.log[k] # <<"SyntaxError">> /\ sse.log[k] # <<"TypeError">>) =>
            /\ sse.pc = "raised"
            /\ sse.raised = sse.log[k]

\* every line of a body, the last one also without its line feed
AllLines(body) ==
    LET pieces == split(toString(body))
    IN  IF pieces[Len(pieces)] = <<>> THEN SubSeq(pieces, 1, Len(pieces) - 1)
        ELSE pieces

\* the generator's locals after the lines, met one after the other
RECURSIVE AfterLines(_, _)
AfterLines(st, lines) ==
    IF lines = <<>> THEN st
    ELSE AfterLines(ProcessLine(st, Head(lines)), Tail(lines))

\* the responses of a body: those of its lines, then the final one when a
\* usage was met
Responses(body) ==
    LET st == AfterLines(Stream("lines", TRUE, body), AllLines(body))
    IN  IF st.totalUsage # <<>>
        THEN Append(st.yielded, FinalResponse(st.accumulatedText, st.totalUsage))
        ELSE st.yielded

\* C40: a call that has returned yielded the responses of the lines of the
\* body, each line met once and in order, the last line also when no line
\* feed follows it, however the body was cut into reads.
C40_ReadsIrrelevant ==
    sse.pc = "done" => sse.yielded = Responses(sse.body)

\* the same for the bodies that end with a line feed only
TerminatedBodiesReadsIrrelevant ==
    (sse.pc = "done" /\ (sse.body = <<>> \/ sse.body[Len(sse.body)] = "\n")) =>
        sse.yielded = Responses(sse.body)

\* the description the claim shows for one resultDisplay: what follows the
\* status [in_progress] and the blanks after it, on the first line that has
\* this status
RECURSIVE InProgressOf(_)
InProgressOf(lines) ==
    IF lines = <<>> THEN <<>>
    ELSE LET line == Head(lines)
             at == { k \in 1..Len(line) : line[k] = "[in_progress]" }
         IN  IF at = {} THEN InProgressOf(Tail(lines))
             ELSE LET k == CHOOSE j \in at : \A h \in at : j <= h
                  IN  TrimLeft(SubSeq(line, k + 1, Len(line)))

\* the string results of the 'Write Todos' tools of one history item
WriteTodosOf(item) ==
    IF item.type # "tool_group" THEN <<>>
    ELSE SelectSeq(item.tools, LAMBDA t : t.name = "Write Todos" /\ t.isString)

\* C32: the frame is the description of the in_progress line of the most
\* recent 'Write Todos' result of the history, and empty when no item of the
\* history has such a result or the most recent one has no in_progress line.
C32_ShowsInProgress ==
    todo.rendered =>
        LET with == { i \in 1..Len(todo.history) : WriteTodosOf(todo.history[i]) # <<>> }
        IN  IF ~todo.hasHistory \/ with = {} THEN todo.frame = <<>>
            ELSE LET i == CHOOSE j \in with : \A h \in with : h <= j
                     text == InProgressOf(split(Head(WriteTodosOf(todo.history[i]))
                                                  .resultDisplay))
                 IN  todo.frame = IF text = <<>> THEN <<>>
                                  ELSE <<"In Progress ToDo: ">> \o text

====
